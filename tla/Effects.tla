------------------------------- MODULE Effects -------------------------------
(***************************************************************************)
(* The effect of a call that may stop half-way: a record with a field      *)
(* error, "none" until the call stops, and what it has changed so far.     *)
(***************************************************************************)

Ok(e) == e.error = "none"
Fail(e, why) == [e EXCEPT !.error = why]
Then(e, Step(_)) == IF Ok(e) THEN Step(e) ELSE e

===============================================================================
