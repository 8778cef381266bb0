--------------------------- MODULE MCServerQueue ---------------------------
(* Instances of ServerQueue for TLC: requests a, b and c on two slots.      *)
EXTENDS ServerQueue, TLC

CONSTANTS a, b, c

Gen(id, slot, kids) == [id |-> id, kind |-> "gen", id_slot |-> slot, kids |-> kids]
Op(id, slot)        == [id |-> id, kind |-> "op", id_slot |-> slot, kids |-> <<>>]

\* a asks for two completions of one prompt (n = 2); b for a completion in slot 1
\* (named 3, which wraps around), or to save slot 0
TwoRequests ==
  (a :> {<<Gen(1, NoId, <<2>>)>>}) @@ (b :> {<<Gen(3, 3, <<>>)>>, <<Op(3, 0)>>})

\* a asks for two completions of one prompt, b for one completion, c saves slot 0
ThreeRequests ==
  (a :> {<<Gen(1, NoId, <<2>>)>>}) @@ (b :> {<<Gen(3, NoId, <<>>)>>}) @@ (c :> {<<Op(4, 0)>>})
=============================================================================
