----------------------------- MODULE Checkpoints -----------------------------
(***************************************************************************)
(* `marita scenario`: a run that starts from the ephemeris or from the     *)
(* checkpoint, ticks, and writes the checkpoint at its end.  Saving        *)
(* truncates the file and writes it in two steps (SimulationState::save);  *)
(* the program may die before, between and after them.                     *)
(***************************************************************************)
EXTENDS TickBroadcast

VARIABLES
  batch,        \* the scenario program: "idle", "running" or "saving"
  batchTick,    \* the tick of its state
  saved         \* history: the tick of every checkpoint written to its end

batchVars == <<batch, batchTick, saved>>

CheckpointInit ==
  /\ batch = "idle"
  /\ batchTick = 0
  /\ saved = {file} \ {NoFile}

BatchStart(fromFile) ==
  /\ user = "Scenario"
  /\ batch = "idle"
  /\ fromFile => Loadable
  /\ batch' = "running"
  /\ batchTick' = StartTick(fromFile)
  /\ UNCHANGED <<broadcastVars, saved>>

BatchTick ==
  /\ batch = "running"
  /\ batchTick < MaxPublished
  /\ batchTick' = batchTick + 1
  /\ UNCHANGED <<broadcastVars, batch, saved>>

\* File::create.
BatchTruncate ==
  /\ batch = "running"
  /\ batch' = "saving"
  /\ file' = Torn
  /\ UNCHANGED <<user, process, link, screen, batchTick, saved>>

\* to_writer_pretty.
BatchWrite ==
  /\ batch = "saving"
  /\ batch' = "idle"
  /\ file' = batchTick
  /\ saved' = saved \cup {batchTick}
  /\ UNCHANGED <<user, process, link, screen, batchTick>>

\* The run ends without --checkpoint-out, or dies; the file stays as it is.
BatchEnd ==
  /\ batch \in {"running", "saving"}
  /\ batch' = "idle"
  /\ UNCHANGED <<broadcastVars, batchTick, saved>>

BatchNext ==
  \/ \E fromFile \in BOOLEAN : BatchStart(fromFile)
  \/ BatchTick \/ BatchTruncate \/ BatchWrite \/ BatchEnd

=============================================================================
