------------------------------ MODULE MCBatch ------------------------------
(***************************************************************************)
(* Instance of Batch for TLC: two paths to one file, one to another, and   *)
(* one of another format to a third; values a and b, a larger one and one  *)
(* that cannot be encoded.                                                 *)
(***************************************************************************)
EXTENDS Batch, TLC
CONSTANTS direct, linked, other, foreign, f1, f2, a, b, big, nan

MCLink  == direct :> f1 @@ linked :> f1 @@ other :> f2 @@ foreign :> f2
MCExt   == direct :> "json" @@ linked :> "json" @@ other :> "json" @@ foreign :> Unknown
MCWhere == a :> "match" @@ b :> "skip" @@ big :> "fails" @@ nan :> "match"
MCBatches == {<<direct, linked, other>>, <<other>>, <<linked, foreign>>, <<foreign>>}
(* Set a value; swap two, so that twice is not once; create a path. *)
MCAsked == {a :> b @@ b :> b @@ big :> None @@ nan :> b,
            a :> b @@ b :> a @@ big :> nan @@ nan :> a,
            a :> big @@ b :> b @@ big :> big @@ nan :> nan}
MCStarts == [value : {a, b, nan}, form : {"compact", "loose"}] \cup {Garbage}
=============================================================================
