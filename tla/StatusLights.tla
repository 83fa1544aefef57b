----------------------------- MODULE StatusLights -----------------------------
(***************************************************************************)
(* The lights of GET /status (status.py).  A loop probes one configured    *)
(* backend after the other, and when the pass is through maps what it      *)
(* found to green, yellow or red; requests are answered from the last      *)
(* finished pass.  A backend out of reach stays yellow for a grace window, *)
(* since a model server refuses connections while it starts.               *)
(*                                                                         *)
(* Beside them, GET /ready, which asks the stores themselves.              *)
(***************************************************************************)
EXTENDS Integers, Sequences, FiniteSets

CONSTANTS
  ProbeOrder,     \* the components in the order they are probed
  Fronted,        \* the models whose light mirrors the gateway's: no direct URL is set
  Misconfigured,  \* the components whose settings cannot work
  Grace,          \* status_grace_seconds, in ticks
  MaxFlips        \* bound: changes of a backend

Component == {ProbeOrder[i] : i \in DOMAIN ProbeOrder}

ASSUME StatusBounds ==
  /\ Fronted \cup Misconfigured \subseteq Component /\ Grace \in Nat /\ MaxFlips \in Nat
  /\ ProbeOrder \in Seq(Component)
  /\ \A i, j \in DOMAIN ProbeOrder : ProbeOrder[i] = ProbeOrder[j] => i = j
  /\ "litellm" \notin Misconfigured   \* its probe is a plain request
  /\ Fronted # {} => \E i \in DOMAIN ProbeOrder : /\ ProbeOrder[i] = "litellm"
                                              /\ \A j \in 1..i : ProbeOrder[j] \notin Fronted

VARIABLES
  backend,     \* component -> what a probe of it finds: ready, not_ready or unreachable
  found,       \* the raw results of the pass under way, in order
  downSince,   \* component -> ticks since it was first unreachable, up to Grace; -1 when it is not
  lights,      \* component -> its cached state
  sinceHeard,  \* ghost: ticks since a probe last got an answer of it, up to Grace
  probing,     \* lifespan has started the loop
  flips

statusVars == <<backend, found, downSince, lights, sinceHeard, probing, flips>>

\* The cache starts empty.
StatusInit ==
  /\ probing = FALSE
  /\ backend = [c \in Component |-> "unreachable"]
  /\ found = <<>> /\ downSince = [c \in Component |-> -1]
  /\ lights = [c \in Component |-> "none"]
  /\ sinceHeard = [c \in Component |-> 0] /\ flips = 0

\* lifespan: the first pass begins before anything is served.
StartProbing == ~probing /\ probing' = TRUE /\ UNCHANGED <<backend, found, downSince, lights, sinceHeard, flips>>

\* A backend comes up, warms up, fails or is left with work: a model server that loads answers
\* 503, meetings that wait or were refused by the hub count as not ready or unreachable.
BackendTurns(c, to) ==
  /\ flips < MaxFlips /\ flips' = flips + 1
  /\ backend[c] # to /\ c \notin Fronted \cup Misconfigured
  /\ c = "postgres" => to # "not_ready"
  /\ backend' = [backend EXCEPT ![c] = to]
  /\ UNCHANGED <<found, downSince, lights, sinceHeard, probing>>

Gateway == CHOOSE i \in DOMAIN ProbeOrder : ProbeOrder[i] = "litellm"

\* _gather, a component at a time.
RawOf(c) == IF c \in Misconfigured THEN "misconfigured"
            ELSE IF c \in Fronted THEN found[Gateway]
            ELSE backend[c]

Probe ==
  /\ probing /\ Len(found) < Len(ProbeOrder)
  /\ LET c == ProbeOrder[Len(found) + 1]
     IN /\ found' = Append(found, RawOf(c))
        /\ sinceHeard' = [sinceHeard EXCEPT ![c] = IF RawOf(c) = "unreachable" THEN @ ELSE 0]
  /\ UNCHANGED <<backend, downSince, lights, probing, flips>>

\* _down_since: any answer ends an outage.
Timer(raw, since) == CASE raw # "unreachable" -> -1
                     [] OTHER -> IF since = -1 THEN 0 ELSE since

\* _apply
Light(raw, since) == CASE raw = "ready" -> "ready"
                     [] raw = "misconfigured" -> "down"
                     [] raw = "not_ready" -> "connecting"
                     [] OTHER -> IF Timer(raw, since) < Grace THEN "connecting" ELSE "down"

\* refresh: a finished pass becomes the snapshot, as one.
PassEnds ==
  /\ Len(found) = Len(ProbeOrder) /\ found' = <<>>
  /\ LET of(c) == found[CHOOSE i \in DOMAIN ProbeOrder : ProbeOrder[i] = c]
     IN /\ downSince' = [c \in Component |-> Timer(of(c), downSince[c])]
        /\ lights' = [c \in Component |-> Light(of(c), downSince[c])]
  /\ UNCHANGED <<backend, sinceHeard, probing, flips>>

StatusTick ==
  /\ probing
  /\ downSince' = [c \in Component |-> IF downSince[c] \in 0..(Grace - 1) THEN downSince[c] + 1 ELSE downSince[c]]
  /\ sinceHeard' = [c \in Component |-> IF sinceHeard[c] < Grace THEN sinceHeard[c] + 1 ELSE sinceHeard[c]]
  /\ UNCHANGED <<backend, found, lights, probing, flips>>

\* _overall
Overall == LET states == {lights[c] : c \in Component}
           IN IF states = {"ready"} THEN "ready" ELSE IF states = {"down"} THEN "down" ELSE "degraded"

StatusNext == \/ StartProbing \/ Probe \/ PassEnds \/ StatusTick
              \/ \E c \in Component, to \in {"ready", "not_ready", "unreachable"} : BackendTurns(c, to)

StatusFairness == WF_statusVars(Probe \/ PassEnds) /\ WF_statusVars(StatusTick)

-----------------------------------------------------------------------------

\* A component of good settings is red only if no probe got an answer of it for the whole grace
\* window: one that flaps, or answers while it loads, never is.
NoFalseRed ==
  [][\A c \in Component \ Misconfigured : lights'[c] = "down" /\ lights[c] # "down"
       => sinceHeard[c] = Grace]_statusVars

Lit(c) == IF c \in Fronted THEN backend["litellm"] ELSE backend[c]

LightOf(c) == IF c \in Misconfigured THEN "down"
              ELSE CASE Lit(c) = "ready" -> "ready" [] Lit(c) = "not_ready" -> "connecting"
                     [] OTHER -> "down"

\* And the lights follow: once nothing changes any more, what is out of reach is red, what is up
\* green, whatever the passes met in between; a mirrored model's light is the gateway's.
LightsFollow ==
  <>[](probing => /\ \A c \in Component : lights[c] = LightOf(c)
                  /\ (\A c \in Component : lights[c] = "ready") <=> Overall = "ready")

\* What /status shows is what there is.
LightsAreTrue == NoFalseRed /\ LightsFollow

-----------------------------------------------------------------------------
(***************************************************************************)
(* GET /ready (main.py's ready over readiness.py's probe_backends): one    *)
(* probe of the stores in a worker thread, which the callers that come     *)
(* while it runs share.  The endpoint is public, so a burst of it must not *)
(* hold a thread each, and a caller that hangs up must not take the        *)
(* others' probe with it.                                                  *)
(***************************************************************************)

CONSTANTS
  Askers,     \* requests of /ready
  MaxProbes,  \* bound: probes
  MaxOutages  \* bound: changes of a store

ASSUME ReadyBounds == MaxProbes \in Nat /\ MaxOutages \in Nat

Stores == {"conversations", "audio"}

VARIABLES
  storeUp,  \* the stores that answer
  probes,   \* the probes so far: the stores each has checked, those of them that answered,
            \* and whether it is under way, done or cancelled
  asks,     \* caller -> new, waits, hung_up, or its answer: ok or unready
  awaits,   \* caller -> the probe it awaits
  over,     \* ghost: caller -> the probes that were over when it asked
  outages

readyVars == <<storeUp, probes, asks, awaits, over, outages>>

ReadyInit ==
  /\ storeUp = Stores /\ probes = <<>> /\ outages = 0
  /\ asks = [a \in Askers |-> "new"]
  /\ awaits = [a \in Askers |-> 0] /\ over = [a \in Askers |-> 0]

StoreTurns(s) ==
  /\ outages < MaxOutages /\ outages' = outages + 1
  /\ storeUp' = IF s \in storeUp THEN storeUp \ {s} ELSE storeUp \cup {s}
  /\ UNCHANGED <<probes, asks, awaits, over>>

Running(p) == probes[p].state = "under_way"

\* _ready_probe is shared until it is done.
Shared == {p \in {Len(probes)} : p > 0 /\ Running(p)}

AskReady(a) ==
  /\ asks[a] = "new" /\ asks' = [asks EXCEPT ![a] = "waits"]
  /\ over' = [over EXCEPT ![a] = Cardinality({p \in DOMAIN probes : ~Running(p)})]
  /\ IF Shared # {}
     THEN UNCHANGED probes
     ELSE Len(probes) < MaxProbes
       /\ probes' = Append(probes, [checked |-> {}, ok |-> {}, state |-> "under_way"])
  /\ awaits' = [awaits EXCEPT ![a] = Len(probes')]
  /\ UNCHANGED <<storeUp, outages>>

\* probe_backends checks the conversation store, then the audio store.
Check(p) ==
  /\ Running(p)
  /\ LET s == IF probes[p].checked = {} THEN "conversations" ELSE "audio"
         seen == probes[p].checked \cup {s}
     IN probes' = [probes EXCEPT ![p] =
          [checked |-> seen, ok |-> @.ok \cup ({s} \cap storeUp),
           state |-> IF seen = Stores THEN "done" ELSE @.state]]
  /\ UNCHANGED <<storeUp, asks, awaits, over, outages>>

Answer(a) ==
  /\ asks[a] = "waits" /\ probes[awaits[a]].state = "done"
  /\ asks' = [asks EXCEPT ![a] = IF probes[awaits[a]].ok = Stores THEN "ok" ELSE "unready"]
  /\ UNCHANGED <<storeUp, probes, awaits, over, outages>>

\* Mutant: the await is not shielded.
CancelledWith(a) == [probes EXCEPT ![awaits[a]] = [@ EXCEPT !.state = IF @ = "done" THEN @ ELSE "cancelled"]]

\* A client that hangs up cancels its own wait; the probe is shielded.
LeftRunning(a) == probes

HangUp(a) ==
  /\ asks[a] = "waits" /\ asks' = [asks EXCEPT ![a] = "hung_up"]
  /\ probes' = LeftRunning(a)
  /\ UNCHANGED <<storeUp, awaits, over, outages>>

ReadyNext == \/ \E s \in Stores : StoreTurns(s)
             \/ \E a \in Askers : AskReady(a) \/ Answer(a) \/ HangUp(a)
             \/ \E p \in DOMAIN probes : Check(p)

ReadyFairness == /\ WF_readyVars(\E p \in DOMAIN probes : Check(p))
                 /\ \A a \in Askers : WF_readyVars(Answer(a))

-----------------------------------------------------------------------------

\* One thread at most is held; and an answer is never of a probe that was over when its caller
\* asked, so a store that came back is not reported down for another round.
ReadyIsFresh ==
  /\ Cardinality({p \in DOMAIN probes : Running(p)}) <= 1
  /\ \A a \in Askers : asks[a] \in {"ok", "unready"} => awaits[a] > over[a]

\* Everyone who stays on the line is answered, whoever hangs up.
AskersAnswered == <>[]\A a \in Askers : asks[a] # "waits"

\* /ready answers everyone, of a probe that still ran when they asked.
ReadyAnswers == []ReadyIsFresh /\ AskersAnswered

\* The status page and the readiness probe tell what there is, and tell everyone.
HealthIsTrue == LightsAreTrue /\ ReadyAnswers
=============================================================================
