------------------------------- MODULE MCContent -------------------------------
(* TLC's instance of Content: two editors whose names begin alike, a viewer. *)
EXTENDS Content, TLC

CONSTANTS ann, annLee, vic

TwoEditors == {ann, annLee}
Three == {ann, annLee, vic}
Names == ann :> <<"A">> @@ annLee :> <<"A", " ", "L">> @@ vic :> <<"V">>

(* A name that begins another; an address, then a mention. *)
Texts == { <<"@", "A", " ", "L">>, <<"x", "@", "V", " ", "@", "A">> }
OnlyAnn == {ann}
NobodyOrVic == {{}, {vic}}

RequestSymmetry == Permutations(Requests) \cup Permutations(TicketIds)
=============================================================================
