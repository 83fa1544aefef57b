----------------------------- MODULE EndingParts -----------------------------
(***************************************************************************)
(* The parts in which something must end on its own: screen meetings and   *)
(* their delivery, the sweep of stale recordings, and the capture client.  *)
(* They share no state and are explored one after another in one model:    *)
(* `part` says which one moves, the others stay in an initial state.       *)
(***************************************************************************)
EXTENDS ScreenMeetings, MeetingDelivery, StaleSweep, CaptureClient

VARIABLE part

endingVars == <<part, meetingVars, deliveryVars, sweepVars, captureVars>>

EndingInit ==
  /\ part \in {"meetings", "delivery", "sweep", "capture"}
  /\ MeetingInit /\ DeliveryInit /\ SweepInit /\ CaptureInit
  /\ part # "delivery" => hub = [m \in Finished |-> "takes"]
  /\ part # "capture" => storedId /\ oidc

EndingNext ==
  /\ UNCHANGED part
  /\ \/ part = "meetings" /\ MeetingNext /\ UNCHANGED <<deliveryVars, sweepVars, captureVars>>
     \/ part = "delivery" /\ DeliveryNext /\ UNCHANGED <<meetingVars, sweepVars, captureVars>>
     \/ part = "sweep" /\ SweepNext /\ UNCHANGED <<meetingVars, deliveryVars, captureVars>>
     \/ part = "capture" /\ CaptureNext /\ UNCHANGED <<meetingVars, deliveryVars, sweepVars>>

\* MeetingFairness and CaptureFairness ask nothing of the other parts, DeliveryFairness and
\* SweepFairness are asked of theirs alone.
EndingFairness ==
  /\ MeetingFairness /\ CaptureFairness
  /\ WF_deliveryVars(part = "delivery" /\ PassStep)
  /\ WF_deliveryVars(part = "delivery" /\ Elapse)
  /\ \A x \in Callers : WF_sweepVars(part = "sweep" /\ Sweeping(x))
  /\ \A c \in Recordings : WF_sweepVars(part = "sweep" /\ (CheckSweep(c) \/ Open(c) \/ Settling(c)))
  /\ WF_sweepVars(part = "sweep" /\ Wake)

EndingSpec == EndingInit /\ [][EndingNext]_endingVars /\ EndingFairness

-----------------------------------------------------------------------------
\* Every meeting is ended, and what was stored of it is delivered or given up.
MeetingsReachHub == MeetingsEnd /\ DeliveryEnds
=============================================================================
