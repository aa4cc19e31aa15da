------------------------------ MODULE MCProbe ------------------------------
(***************************************************************************)
(* Model-checking instance of Probe: machines with up to three interfaces,   *)
(* of every kind and with instruments on one or two networks.               *)
(***************************************************************************)
EXTENDS Probe

On(k, s, I) == [kind |-> k, sends |-> s, hear |-> I]
Loopback == On("other", "always", {})

MCNetworks ==
    {<<Loopback, On("inet", "always", {"a"}), On("inet", "always", {"b", "old"})>>,
     <<On("inet", "sometimes", {"a"}), Loopback, On("inet", "never", {"b"})>>,
     <<On("inet", "always", {"a", "b"})>>,
     <<On("null", "always", {}), On("inet", "always", {"a"})>>,
     <<On("inet", "always", {"a"}), On("inet", "always", {"a"}),
       On("inet", "always", {"b"})>>}
=============================================================================
