------------------------------ MODULE LoraChip ------------------------------
(* LoraSerialSx1262Transport: the SX126x twin of the driver of LoraSerial.  The *)
(* turns of the radio, the queue of sends, the hello and the poll are the same; *)
(* what differs is the bridge, whose chip may answer BUSY instead of running a  *)
(* command (sendWithBusyRetry() writes it again until a deadline), and start(), *)
(* which proves that a chip is there before the transport is up.                *)
EXTENDS LoraSerial

CONSTANT MaxBusy    \* bound: BUSY answers

VARIABLES
  boot,     \* start(): the step it is at, BootSteps + 1 when it is through
  busy,     \* BUSY answers so far
  loaded,   \* what send() wrote to the chip's buffer last: <<send, fragment>>
  aired     \* the fragments that have been on the air

chipVars == <<vars, boot, busy, loaded, aired>>
own == <<boot, busy, loaded, aired>>

\* The port opens, RESET, standby and GetStatus, the configuration, the receiver.
BootSteps == 5
Busy == [to |-> "busy", rx |-> "no", tx |-> FALSE, frame |-> "none"]

ChipInit ==
  /\ Fresh(FALSE, "off")
  /\ boot = 1 /\ busy = 0 /\ loaded = <<"none", 0>> /\ aired = {}

-----------------------------------------------------------------------------
(* start(). *)

\* A step of start() is answered as it should be.  The last one turns the receiver
\* on; the transport counts as started just before it.
StartStep ==
  /\ ~up /\ boot \in 1..BootSteps
  /\ boot' = boot + 1
  /\ up' = (boot = BootSteps) /\ mode' = IF boot = BootSteps THEN "rx" ELSE "standby"
  /\ UNCHANGED <<peer, connecting, helloSent, queue, turns, asked, answers, fifo, rxFlag, txFlag, frames, faults, busy, loaded, aired>>

\* No port, no answer, or a chip in another mode than STBY_RC: start() rejects, and
\* may be called again.
StartFails ==
  /\ ~up /\ boot \in 1..BootSteps /\ faults < MaxFaults
  /\ faults' = faults + 1 /\ boot' = 1
  /\ UNCHANGED <<link, queue, turns, asked, answers, chip, frames, busy, loaded, aired>>

-----------------------------------------------------------------------------
(* The bridge client. *)

\* The command reaches a chip that is BUSY: it is not run, and the bridge says so.
IssueBusy ==
  /\ turns # <<>> /\ asked = "none" /\ busy < MaxBusy
  /\ busy' = busy + 1
  /\ asked' = Cmds(turns[1].kind)[turns[1].at]
  /\ answers' = Append(answers, Busy)
  /\ UNCHANGED <<link, queue, turns, chip, frames, faults, boot, loaded, aired>>

\* As if any answer to a write would do.
RetryBusyNever ==
  /\ turns' = [turns EXCEPT ![1].at = IF turns[1].kind = "frag" /\ @ < 4 THEN @ + 1 ELSE @]
  /\ UNCHANGED <<link, queue>>

\* The command is written again after a pause: the turn stays where it is.
RetryBusy == UNCHANGED <<turns, link, queue>>

BusyAnswer ==
  /\ asked # "none" /\ answers # <<>> /\ Head(answers) = Busy
  /\ asked' = "none" /\ answers' = Tail(answers)
  /\ RetryBusy
  /\ UNCHANGED <<chip, frames, faults, own>>

\* Still BUSY past the deadline: the command is given up.
BusyTooLong ==
  /\ asked # "none" /\ answers # <<>> /\ Head(answers) = Busy
  /\ faults < MaxFaults /\ faults' = faults + 1
  /\ asked' = "none" /\ answers' = Tail(answers)
  /\ Fails
  /\ UNCHANGED <<chip, frames, own>>

\* execute() and query(): the answer decides how the turn goes on, and the last read of
\* a poll hands the frame over.
AnswerOk == answers # <<>> /\ Head(answers) # Busy /\ Answer /\ UNCHANGED own
execute == asked # "fetch" /\ AnswerOk
handleReceivedFrame == asked = "fetch" /\ AnswerOk
sendOnce ==
  /\ Issue
  /\ loaded' = IF asked' # "load" THEN loaded
               ELSE IF turns[1].kind = "frag" THEN <<cur.send, cur.left>> ELSE <<"none", 0>>
  /\ UNCHANGED <<boot, busy, aired>>
sendOnceTimesOut == CommandTimesOut /\ UNCHANGED own
handleData == Stray /\ UNCHANGED own

-----------------------------------------------------------------------------
(* The transport: as in LoraSerial. *)

\* TX_DONE, which ends the wait of transmitFragmentBytes().
transmitted ==
  /\ TxDone
  /\ aired' = aired \cup {loaded}
  /\ UNCHANGED <<boot, busy, loaded>>
\* txTimeoutMs: TX_DONE has not come, because the chip never got to transmit or is slow.
TxTimesOut ==
  /\ asked = "irq" /\ turns[1].kind # "poll"
  /\ answers # <<>> /\ Head(answers).to = "irq" /\ ~Head(answers).tx
  /\ \/ mode # "tx" /\ ~txFlag /\ UNCHANGED faults
     \/ faults < MaxFaults /\ faults' = faults + 1
  /\ asked' = "none" /\ answers' = Tail(answers)
  /\ Fails
  /\ UNCHANGED <<chip, frames, own>>
received(flag) == FrameArrives(flag) /\ UNCHANGED own
pollForReceivedPacket == Poll /\ UNCHANGED own
connect == Connect /\ UNCHANGED own
connectTimesOut == ConnectTimesOut /\ UNCHANGED own
send(s) == SendFrame(s) /\ UNCHANGED own
stop == Stop /\ UNCHANGED own

ChipNext ==
  \/ StartStep \/ StartFails \/ IssueBusy \/ BusyAnswer \/ BusyTooLong
  \/ execute \/ handleReceivedFrame \/ sendOnce \/ sendOnceTimesOut \/ handleData \/ transmitted \/ TxTimesOut
  \/ \E flag \in {"good", "bad"} : received(flag)
  \/ pollForReceivedPacket \/ connect \/ connectTimesOut \/ stop
  \/ \E s \in Sends : send(s)

\* Commands are written and answered, BUSY or not, a transmission ends, and the wait for
\* one that will not end has a deadline.
ChipFairness ==
  /\ WF_chipVars(sendOnce) /\ WF_chipVars(AnswerOk) /\ WF_chipVars(BusyAnswer) /\ WF_chipVars(transmitted)
  /\ SF_chipVars(TxTimesOut)

ChipSpec == ChipInit /\ [][ChipNext]_chipVars /\ ChipFairness

-----------------------------------------------------------------------------
\* While nothing has timed out, a send that resolves has been on the air whole, every
\* fragment of it: a command that met a BUSY chip never counts as run.
ResolvedWasAired ==
  faults = 0 => \A s \in Sends : outcome[s] = "resolved" => \A k \in 1..Size[s] : <<s, k>> \in aired

\* Every send() settles, the chip BUSY, late or deaf.
ChipSendSettles == LoraSendSettles
=============================================================================
