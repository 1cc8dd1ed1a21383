------------------------------- MODULE MCGuide -------------------------------
(* Constants for model checking Guide: two automaton states, two ordinary   *)
(* tokens and EOS; component values run round a cycle, so that a record     *)
(* restored from the wrong place gives a wrong value.                       *)
EXTENDS GuideRefinesContract

MCDelta == <<0, "open">> :> 1 @@ <<1, "more">> :> 1
MCWidth == "open" :> 1 @@ "more" :> 1
MCWideWidth == "open" :> 2 @@ "more" :> 1

Cycle(n) == {<<i, (i + 1) % n>> : i \in 0..(n - 1)}
MCCursorStep == Cycle(4)
MCRouterStep == Cycle(3)
MCSemanticStep == Cycle(3)
MCReach == 0 :> 0 @@ 1 :> 1 @@ 2 :> 1
==============================================================================
