--------------------------- MODULE MC_TypeResolver ---------------------------
(***************************************************************************)
(* A store with package 100 upgraded to 102 (which adds m::B<T>) and an   *)
(* unrelated package 200; address 300 holds no package.                   *)
(***************************************************************************)
EXTENDS TypeResolver, TLC

MCAddrs == {100, 102, 200, 300}
MCOriginal == (100 :> 100) @@ (102 :> 100) @@ (200 :> 200) @@ (300 :> 300)
MCTypeOrigin ==
  (100 :> ("m::A" :> 100))
  @@ (102 :> (("m::A" :> 100) @@ ("m::B" :> 102)))
  @@ (200 :> ("n::C" :> 200))
MCKeys == {"m::A", "m::B", "n::C"}
MCArity == ("m::A" :> 0) @@ ("m::B" :> 1) @@ ("n::C" :> 0)
=============================================================================
