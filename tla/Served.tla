------------------------------- MODULE Served -------------------------------
(***************************************************************************)
(* A request under a configuration: nginx parses and merges the directives *)
(* (Configuration), a worker resolves the locations, and a request of one  *)
(* of them lives its life (RequestLife) under the Cfg the worker built.    *)
(*                                                                         *)
(* The handler reads nothing of the configuration but that Cfg, which      *)
(* never changes once it is built.  So a behaviour follows the             *)
(* configuration until a request is accepted and that request from then    *)
(* on; the settings the request's life does not depend on are forgotten.   *)
(***************************************************************************)
EXTENDS Configuration, RequestLife

servedVars == <<configVars, requestVars>>

Handled(c) ==
  [enabled |-> TRUE, key_ok |-> c.key_ok, difficulty |-> c.difficulty,
   replay |-> c.replay, replay_max_body |-> c.replay_max_body, mapped |-> c.mapped]

\* The configuration of the process, put aside.
Forgotten ==
  /\ stage' = "serving"
  /\ written' = Nothing /\ directives' = 0
  /\ conf' = Undecided /\ resolved' = Undecided
  /\ keys' = [p \in DOMAIN keys |-> Unresolved]

\* A location is resolved when its first request needs it, so a request finds
\* its location resolved.  Where the gate is off nothing is resolved and only
\* the flag is read.
AcceptIn(l) ==
  /\ stage = "running"
  /\ conf[l]["enabled"] # 0 => resolved[l] # Unresolved
  /\ Accept(IF conf[l]["enabled"] # 0 THEN Handled(resolved[l]) ELSE NoCfg, Nearest(l, "difficulty"))
  /\ Forgotten

\* A refused configuration serves nothing.
NotStarted == stage = "refused" /\ UNCHANGED servedVars

ServedInit == ConfigInit /\ RequestInit

ServedNext ==
  \/ pc = "none" /\ ConfigNext /\ UNCHANGED requestVars
  \/ \E l \in Locations : AcceptIn(l)
  \/ RequestNext /\ UNCHANGED configVars
  \/ NotStarted

ServedSafety == ServedInit /\ [][ServedNext]_servedVars

(***************************************************************************)
(* nginx keeps running what is runnable; a body that does not come ends in *)
(* client_body_timeout and a job in its deadline.  The client owes nothing *)
(* and neither does whoever writes the configuration.                      *)
(***************************************************************************)
ServedSpec == ServedSafety /\ WF_servedVars(Progress /\ UNCHANGED configVars)

=============================================================================
