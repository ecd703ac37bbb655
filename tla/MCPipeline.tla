---------------------------- MODULE MCPipeline ----------------------------
(* Finite instances of Pipeline.                                           *)
EXTENDS Pipeline, TLC

MCSymmetry == Permutations(Children) \cup Permutations(Users)

Plain == {s \in Step : ~s.when}
Abort(k)  == [kind |-> k, abort |-> TRUE, when |-> FALSE]
Carry(k)  == [kind |-> k, abort |-> FALSE, when |-> FALSE]
When(k)   == [kind |-> k, abort |-> FALSE, when |-> TRUE]

(* Every pipeline of at most two unconditional steps, but only some with   *)
(* another long step behind an agent; and conditional steps.               *)
MCShort ==
    {d \in UNION {[1..n -> Plain] : n \in 0..2} :
        Len(d) = 2 /\ d[1].kind = "agent" => d[2].kind \in {"exec", "foreach", "unknown"}}
      \cup {<<Carry("agent"), Carry("agent")>>,
            <<When("exec"), Abort("agent")>>, <<Carry("agent"), When("foreach")>>,
            <<Abort("exec"), When("user_prompt"), Abort("exec")>>}

MCGate == {<<Abort("user_prompt"), Abort("exec")>>}

MCFew == {<<>>, <<Carry("agent"), When("exec")>>, <<Abort("agent"), Abort("foreach")>>,
          <<Abort("user_prompt"), Carry("agent")>>, <<Abort("exec"), Abort("unknown")>>,
          <<Carry("agent"), Abort("user_prompt"), Abort("exec")>>}
===========================================================================
