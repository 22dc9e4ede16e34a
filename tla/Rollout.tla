------------------------------ MODULE Rollout ------------------------------
(***************************************************************************)
(* cmd/vertex-agent against cmd/vertex-config: the agent of each store     *)
(* polls for its active version, deploys it, looks at its health and takes *)
(* an unhealthy canary back, while operators publish, promote and roll     *)
(* back.  Either side may restart; both keep their state in memory only.   *)
(*                                                                         *)
(* One tick of reconcileOne is Poll, Encode, then Deploy, and the POST of  *)
(* the rollback if there is one.  Poll is active() under cs.mu; the handler*)
(* encodes the version it points to only after the unlock, so the canary   *)
(* percentage in the answer is the one of Encode.                          *)
(***************************************************************************)
EXTENDS ConfigStore

VARIABLES
  pc,         \* what each agent is doing
  answer,     \* the active version an agent's GET is about
  deployed,   \* deployed[svc] of each agent
  calm        \* the operators are done and nothing restarts any more

agentVars == <<pc, answer, deployed>>
vars == <<versions, agentVars, calm>>

PC == {"idle", "selected", "answered", "rolling_back"}

(***************************************************************************)
(* current is a history variable: vertex-config has not restarted since,   *)
(* so that version still names the same configuration there.               *)
(***************************************************************************)
Copy == [version : Nat, pct : Int, current : BOOLEAN]
Nothing == [version |-> None, pct |-> 0, current |-> FALSE]

Init ==
  /\ versions = <<>>
  /\ pc = [s \in Stores |-> "idle"]
  /\ answer = [s \in Stores |-> Nothing]
  /\ deployed = [s \in Stores |-> Nothing]
  /\ calm = FALSE

Goto(s, from, to) ==
  /\ pc[s] = from
  /\ pc' = [pc EXCEPT ![s] = to]

-----------------------------------------------------------------------------
(* Operators, through routeConfigs *)

Operate ==
  /\ ~calm
  /\ \/ \E p \in Pcts : publish(p)
     \/ \E v \in DOMAIN versions : promote(v) \/ rollback(v)
  /\ UNCHANGED <<agentVars, calm>>

-----------------------------------------------------------------------------
(* reconcileOne *)

\* Before anything is published the GET is answered with 404.
NotPublished(s) ==
  /\ pc[s] = "idle"
  /\ active(s) = None
  /\ UNCHANGED vars

\* Mutant: the handler does not look for nil.
PollUnchecked(s) ==
  /\ Goto(s, "idle", "selected")
  /\ answer' = [answer EXCEPT ![s] =
       [version |-> active(s), pct |-> 0, current |-> TRUE]]
  /\ UNCHANGED <<versions, deployed, calm>>

Poll(s) ==
  /\ active(s) # None
  /\ Goto(s, "idle", "selected")
  /\ answer' = [answer EXCEPT ![s] =
       [version |-> active(s), pct |-> 0, current |-> TRUE]]
  /\ UNCHANGED <<versions, deployed, calm>>

Encode(s) ==
  /\ Goto(s, "selected", "answered")
  /\ answer' = [answer EXCEPT ![s].pct = versions[answer[s].version].pct]
  /\ UNCHANGED <<versions, deployed, calm>>

\* The request or its answer is lost, or the client's timeout strikes.
GetFails(s) ==
  /\ pc[s] \in {"selected", "answered"}
  /\ pc' = [pc EXCEPT ![s] = "idle"]
  /\ answer' = [answer EXCEPT ![s] = Nothing]
  /\ UNCHANGED <<versions, deployed, calm>>

\* The same version is not deployed again.
Current(s) ==
  IF deployed[s].version = answer[s].version THEN deployed[s] ELSE answer[s]

\* The health signal is noise, except that version 1 is always healthy.
Healthy(v) == IF v > 1 THEN BOOLEAN ELSE {TRUE}

TakesBack(healthy, c) == ~healthy /\ 0 < c.pct /\ c.pct < 100

\* Mutant: only a newer version is deployed.
DeployOnlyNewer(s) ==
  /\ pc[s] = "answered"
  /\ deployed' = [deployed EXCEPT ![s] =
       IF deployed[s].version >= answer[s].version THEN deployed[s]
       ELSE answer[s]]
  /\ pc' = [pc EXCEPT ![s] = "idle"]
  /\ answer' = [answer EXCEPT ![s] = Nothing]
  /\ UNCHANGED <<versions, calm>>

Deploy(s) ==
  /\ pc[s] = "answered"
  /\ deployed' = [deployed EXCEPT ![s] = Current(s)]
  /\ \E healthy \in Healthy(answer[s].version) :
       IF TakesBack(healthy, Current(s))
       THEN pc' = [pc EXCEPT ![s] = "rolling_back"] /\ UNCHANGED answer
       ELSE /\ pc' = [pc EXCEPT ![s] = "idle"]
            /\ answer' = [answer EXCEPT ![s] = Nothing]
  /\ UNCHANGED <<versions, calm>>

EndTick(s) ==
  /\ Goto(s, "rolling_back", "idle")
  /\ answer' = [answer EXCEPT ![s] = Nothing]
  /\ UNCHANGED <<deployed, calm>>

RollBack(s) ==
  /\ EndTick(s)
  /\ rollback(answer[s].version)

\* The POST is lost, or vertex-config does not know the version any more.
RollBackFails(s) ==
  /\ EndTick(s)
  /\ UNCHANGED versions

-----------------------------------------------------------------------------
(* Restarts *)

AgentRestarts(s) ==
  /\ ~calm
  /\ pc' = [pc EXCEPT ![s] = "idle"]
  /\ answer' = [answer EXCEPT ![s] = Nothing]
  /\ deployed' = [deployed EXCEPT ![s] = Nothing]
  /\ UNCHANGED <<versions, calm>>

\* The versions are lost, and the requests being served.
ConfigRestarts ==
  /\ ~calm
  /\ versions' = <<>>
  /\ pc' = [s \in Stores |-> IF pc[s] = "selected" THEN "idle" ELSE pc[s]]
  /\ answer' = [s \in Stores |-> IF pc[s] = "selected" THEN Nothing
                                 ELSE [answer[s] EXCEPT !.current = FALSE]]
  /\ deployed' = [s \in Stores |-> [deployed[s] EXCEPT !.current = FALSE]]
  /\ UNCHANGED calm

Calm ==
  /\ ~calm
  /\ calm' = TRUE
  /\ UNCHANGED <<versions, agentVars>>

AgentStep(s) ==
  NotPublished(s) \/ Poll(s) \/ Encode(s) \/ GetFails(s) \/ Deploy(s)
    \/ RollBack(s) \/ RollBackFails(s)

Next ==
  \/ Operate
  \/ \E s \in Stores : AgentStep(s) \/ AgentRestarts(s)
  \/ ConfigRestarts
  \/ Calm

Spec == Init /\ [][Next]_vars

(***************************************************************************)
(* The ticker of reconcileLoop goes on, every request ends by its timeout, *)
(* and vertex-config can be reached again and again.  A rollback need      *)
(* never get through.                                                      *)
(***************************************************************************)
Fairness ==
  \A s \in Stores :
    /\ WF_vars(AgentStep(s))
    /\ SF_vars(Encode(s))
    /\ SF_vars(Deploy(s))

FairSpec == Spec /\ Fairness

-----------------------------------------------------------------------------
(* Properties *)

TypeOK ==
  /\ versions \in Seq(configVersion)
  /\ pc \in [Stores -> PC]
  /\ answer \in [Stores -> Copy]
  /\ deployed \in [Stores -> Copy]
  /\ calm \in BOOLEAN
  /\ \A s \in Stores :
       /\ pc[s] # "idle" => answer[s].version # None
       /\ pc[s] = "selected" => Known(answer[s].version)

\* "A bad push's blast radius is capped at the canary percentage"
\* (vertex-agent/main.go, 10-12): whatever is promoted, rolled back or lost
\* between an agent's GET and its deployment, a store runs a version after
\* the first only if it is in that version's canary or the version is full.
BlastRadius ==
  \A s \in Stores :
    deployed[s].current /\ deployed[s].version > 1
      => /\ Known(deployed[s].version)
         /\ Targeted(s, deployed[s].version)

\* What a step does to the store s, if it was served a full version.
OthersStayOn(s) ==
  active(s) \in Good /\ active(s)' # active(s)
    => \/ Good' \ Good # {}
       \/ active(s) \notin Good'
       \/ Newest' > Newest /\ inCanaryBucket(s, versions'[Newest'].pct)

\* A store that is served a full version is moved to another one only when
\* some version becomes full, when its own is taken back, or when it is in
\* the canary just published: a canary comes and goes without the others
\* noticing (active, vertex-config/main.go, 74-95).
OthersUndisturbed == [][\A s \in Stores : OthersStayOn(s)]_vars

\* "If the observed error rate exceeds a threshold while on a canary version"
\* (vertex-agent/main.go, 6-9): an agent takes a version back only when
\* vertex-config told it in the same tick that the version is a canary.
RollbackOnlyOfCanary ==
  [][\A s \in Stores :
       pc[s] = "answered" /\ pc'[s] = "rolling_back"
         => answer[s].pct < 100]_vars

\* A version that is rolled back leaves every store, unless it is promoted
\* again or it is the first one and nothing else can be served.
RolledBackLeaves ==
  \A s \in Stores, v \in 1..MaxVersions :
    Known(v) /\ versions[v].rolledBack
      ~> \/ Known(v) => ~versions[v].rolledBack
         \/ deployed[s].version # v
         \/ active(s) = 1 /\ v = 1

\* When the operators are done and nothing restarts, every store ends up on
\* the version it is served and stays there, auto-rollbacks notwithstanding.
Converges ==
  \A s \in Stores :
    calm ~> [](active(s) # None => deployed[s].version = active(s))
=============================================================================
