---------------------------- MODULE MCStateTables ----------------------------
(***************************************************************************)
(* Instances of StateTables for TLC: a token t, two users whose addresses  *)
(* come in more than one spelling, and blocks that meet every branch of    *)
(* the parser.                                                             *)
(***************************************************************************)
EXTENDS StateTables

MCUserOf  == [a \in {"ann", "Ann", "bob", "zero"} |-> IF a = "Ann" THEN "ann" ELSE a]
MCTokenOf == [a \in {"t", "T"} |-> "t"]

Transfer(from, to, amount) ==
  [dict |-> TRUE, topics |-> "transfer", token |-> "T",
   from |-> from, to |-> to, data |-> amount]

Receipt(logs) == [dict |-> TRUE, status |-> "ok", listed |-> TRUE, logs |-> logs]

Block(number, index, mini, receipts) ==
  [hex |-> FALSE, number |-> number, index |-> index, mini |-> mini,
   receipts |-> receipts]

\* ann pays bob twice, bob pays himself; ann's address in two spellings
Pay == Block(1, 0, 1, <<Receipt(<<Transfer("Ann", "bob", 1),
                                  Transfer("bob", "bob", 1),
                                  Transfer("ann", "bob", 1)>>)>>)

\* ann is minted 3, a transaction of bob's fails, other logs are passed over
Mint ==
  Block(2, 0, NoMini,
    <<[Receipt(<<Transfer("zero", "ann", 3),
                 [Transfer("bob", "ann", 1) EXCEPT !.topics = "other"],
                 [Transfer("bob", "ann", 1) EXCEPT !.topics = "short"],
                 [Transfer("bob", "ann", Unreadable) EXCEPT !.token = NoToken],
                 [Transfer("bob", "ann", 1) EXCEPT !.dict = FALSE]>>)
         EXCEPT !.status = "none"],
      [Receipt(<<Transfer("bob", "ann", 1)>>) EXCEPT !.status = "failed"],
      [Receipt(<<>>) EXCEPT !.listed = FALSE]>>)

\* ann gives all back and bob receives from a contract without an address
Back ==
  Block(1, 0, 2, <<Receipt(<<Transfer("ann", "zero", 1), Transfer("zero", "ann", 1),
                             [Transfer("ann", "bob", 2) EXCEPT !.token = NoToken]>>)>>)

\* another mini-block with the number of Pay
Again == Block(2, 1, 1, <<>>)

\* more than an INTEGER column holds
Whale == Block(3, 0, 3, <<Receipt(<<Transfer("zero", "bob", 9),
                                    Transfer("bob", "ann", 1)>>)>>)

\* a log whose topics are null
Null == Block(3, 1, 4, <<Receipt(<<[Transfer("ann", "bob", 1)
                                      EXCEPT !.topics = "unsized"]>>)>>)

\* a contract whose address is a number
Odd == Block(3, 2, 5, <<Receipt(<<[Transfer("ann", "bob", 1)
                                     EXCEPT !.token = NotText]>>)>>)

MCPayload == [pay |-> Pay, mint |-> Mint, back |-> Back, again |-> Again,
              whale |-> Whale, null |-> Null, odd |-> Odd]
MCNets    == {NetChanges(MCPayload[b]) : b \in DOMAIN MCPayload}
MCNumbers == 1..3
=============================================================================
