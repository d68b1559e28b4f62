----------------------------- MODULE MCRequests -----------------------------
(* An instance of Requests for TLC: a block in each of three epochs, the     *)
(* first without ada pots, and withdrawals in the last.                       *)
EXTENDS Requests, TLC

MCRoots == {"assets", "blocks_aggregate"}
MCOperators == {[op |-> "_eq", values |-> 1, points |-> 1],
                [op |-> "_in", values |-> 3, points |-> 3],
                [op |-> "_like", values |-> 1, points |-> 2]}
MCOffsets == {101, -99, -250}

MCEpochOf == <<1, 2, 3>>
MCMinted == <<0, 2, 400>>
MCUtxos == <<40, 40, 43>>
MCRewards == (2 :> 10) @@ (3 :> 10)
MCWithdrawals == 3 :> 4
MCReserves == (2 :> 60) @@ (3 :> 50)

Token(asset, quantity) == [asset |-> asset, quantity |-> quantity]
Output(created, spent, value, tokens) ==
  [created |-> created, spent |-> spent, value |-> value, tokens |-> tokens]
MCOutputs ==
  <<Output(1, 3, 10, <<>>),
    Output(1, 9, 5, <<Token("a", 7), Token("b", 1)>>),
    Output(2, 9, 4, <<Token("b", 2)>>)>>
=============================================================================
