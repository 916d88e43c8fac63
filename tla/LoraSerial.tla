----------------------------- MODULE LoraSerial -----------------------------
(***************************************************************************)
(* LoraSerialTransport: a driver that talks to a half-duplex radio over a  *)
(* serial bridge without request ids.  Polls of the receiver and transmis- *)
(* sions of fragments take turns (withRadio()), a turn is a sequence of    *)
(* commands, a command may time out and its answer come late, and the chip *)
(* has one FIFO for what it receives and what it is given to send.         *)
(***************************************************************************)
EXTENDS Naturals, Sequences, FiniteSets

CONSTANTS
  Sends,        \* calls of send()
  Size,         \* per send, its fragments
  Level,        \* per send, its priority: 0 is the most urgent
  MaxFrames,    \* bound: frames that arrive over the air
  MaxFaults     \* bound: commands and transmissions that time out

VARIABLES
  up,           \* started
  peer,         \* connection: "none", "other" or "self"
  connecting,   \* pendingConnect
  helloSent,
  todo,         \* sendQueue: sends waiting
  cur,          \* the send drainSendQueue() is at and its fragments left, or NoSend
  outcome,      \* per send, its promise
  turns,        \* the chain of radioBusy: [kind, at, crc], the first one running
  asked,        \* the command outstanding: pending of the bridge client
  answers,      \* answers on the serial line
  mode, fifo,   \* the chip: its mode and the frame in its FIFO
  rxFlag, txFlag,
  frames, faults

vars == <<up, peer, connecting, helloSent, todo, cur, outcome, turns, asked, answers, mode, fifo, rxFlag, txFlag, frames, faults>>
chip == <<mode, fifo, rxFlag, txFlag>>
link == <<up, peer, connecting, helloSent>>
queue == <<todo, cur, outcome>>

NoSend == [send |-> "none", left |-> 0]
Turn(k) == [kind |-> k, at |-> 1, crc |-> "no"]
Cmds(k) == IF k = "poll" THEN <<"irq", "clearRx", "fetch">>
           ELSE <<"standby", "load", "go", "irq", "clearTx", "listen">>

\* Nothing asked, nothing queued; the driver is up or not, the chip in a mode.
Fresh(on, chipMode) ==
  /\ up = on /\ peer = "none" /\ connecting = FALSE /\ helloSent = FALSE
  /\ todo = {} /\ cur = NoSend /\ outcome = [s \in Sends |-> "none"]
  /\ turns = <<>> /\ asked = "none" /\ answers = <<>>
  /\ mode = chipMode /\ fifo = "none" /\ rxFlag = "no" /\ txFlag = FALSE
  /\ frames = 0 /\ faults = 0

Init == Fresh(TRUE, "rx")

-----------------------------------------------------------------------------
(* The bridge client: sendAndAwait(), and the chip behind it. *)

\* The next command of the running turn is written and executed.
Issue ==
  /\ turns # <<>> /\ asked = "none"
  /\ LET c == Cmds(turns[1].kind)[turns[1].at] IN
     /\ asked' = c
     /\ mode' = CASE c = "standby" -> "standby" [] c = "go" -> "tx" [] c = "listen" -> "rx" [] OTHER -> mode
     /\ fifo' = IF c = "load" THEN "self" ELSE fifo
     /\ rxFlag' = IF c = "clearRx" THEN "no" ELSE rxFlag
     /\ txFlag' = IF c = "clearTx" THEN FALSE ELSE txFlag
     /\ answers' = Append(answers, [to |-> c, rx |-> rxFlag, tx |-> txFlag, frame |-> fifo])
  /\ UNCHANGED <<link, queue, turns, frames, faults>>

\* The chip ends a transmission, or receives a frame while it listens.
TxDone ==
  /\ mode = "tx" /\ ~txFlag
  /\ txFlag' = TRUE /\ mode' = "standby"
  /\ UNCHANGED <<link, queue, turns, asked, answers, fifo, rxFlag, frames, faults>>

FrameArrives(flag) ==
  /\ mode = "rx" /\ frames < MaxFrames
  /\ frames' = frames + 1 /\ fifo' = "other" /\ rxFlag' = flag
  /\ UNCHANGED <<link, queue, turns, asked, answers, mode, txFlag, faults>>

\* handleData() with no command outstanding: the frame is dropped.
Stray ==
  /\ asked = "none" /\ answers # <<>> /\ answers' = Tail(answers)
  /\ UNCHANGED <<link, queue, turns, asked, chip, frames, faults>>

-----------------------------------------------------------------------------
(* Turns. *)

Advance(n) == turns' = [turns EXCEPT ![1].at = n]

\* As if a turn ended once the frame was out.
AfterTxDeaf == "ends"

\* What follows TX_DONE: the flag is cleared and the receiver turned on again.
AfterTx == "goes on"

\* identifyPeer(), and the HELLO of the side that has sent none yet.
Identify(who) ==
  /\ peer' = who /\ connecting' = FALSE /\ helloSent' = TRUE
  /\ turns' = Tail(turns) \o (IF helloSent THEN <<>> ELSE <<Turn("hello")>>)
  /\ UNCHANGED up

\* A fragment or a HELLO is out, or its turn failed: transmitPacket() goes on
\* to the next fragment, drainSendQueue() to the most urgent send waiting.
Settle(ok) ==
  LET k == turns[1].kind
      goesOn == k = "frag" /\ ok /\ cur.left > 1
      done == k = "frag" /\ ~goesOn
      best == {s \in todo : \A t \in todo : Level[s] <= Level[t]}
      taken == done /\ todo # {}
  IN
  /\ outcome' = IF done THEN [outcome EXCEPT ![cur.send] = IF ok THEN "resolved" ELSE "rejected"] ELSE outcome
  /\ \E s \in IF taken THEN best ELSE {"none"} :
       /\ cur' = IF taken THEN [send |-> s, left |-> Size[s]]
                 ELSE IF done THEN NoSend
                 ELSE IF goesOn THEN [cur EXCEPT !.left = @ - 1] ELSE cur
       /\ todo' = todo \ {s}
  /\ turns' = IF goesOn \/ taken THEN Append(Tail(turns), Turn("frag")) ELSE Tail(turns)
  /\ connecting' = (connecting /\ (k # "hello" \/ ok))
  /\ helloSent' = (helloSent /\ ~(k = "hello" /\ ~ok /\ connecting))
  /\ UNCHANGED <<up, peer>>

Fails == IF turns[1].kind = "poll" THEN turns' = Tail(turns) /\ UNCHANGED <<link, queue>> ELSE Settle(FALSE)

\* The first answer on the line is taken for the one to the command that is
\* outstanding.  A write takes any; a read fails on one that has no value.
Answer ==
  /\ asked # "none" /\ answers # <<>>
  /\ asked' = "none" /\ answers' = Tail(answers)
  /\ LET a == Head(answers)
         fits == asked \notin {"irq", "fetch"} \/ a.to = asked
     IN
     IF ~fits THEN Fails
     ELSE CASE asked = "irq" /\ turns[1].kind = "poll" ->
                 (IF a.rx = "no" THEN turns' = Tail(turns)
                  ELSE turns' = [turns EXCEPT ![1] = [kind |-> "poll", at |-> 2, crc |-> a.rx]])
                 /\ UNCHANGED <<link, queue>>
            [] asked = "clearRx" ->
                 (IF turns[1].crc = "bad" THEN turns' = Tail(turns) ELSE Advance(3)) /\ UNCHANGED <<link, queue>>
            [] asked = "fetch" ->
                 /\ IF peer = "none" THEN Identify(a.frame) ELSE turns' = Tail(turns) /\ UNCHANGED link
                 /\ UNCHANGED queue
            [] asked = "irq" /\ turns[1].kind # "poll" ->
                 IF a.tx /\ AfterTx = "ends" THEN Settle(TRUE)
                 ELSE Advance(IF a.tx THEN 5 ELSE 4) /\ UNCHANGED <<link, queue>>
            [] asked = "listen" -> Settle(TRUE)
            [] OTHER -> Advance(turns[1].at + 1) /\ UNCHANGED <<link, queue>>
  /\ UNCHANGED <<chip, frames, faults>>

\* commandTimeoutMs; the answer may still come.
CommandTimesOut ==
  /\ asked # "none" /\ faults < MaxFaults /\ faults' = faults + 1
  /\ asked' = "none" /\ Fails
  /\ UNCHANGED <<answers, chip, frames>>

-----------------------------------------------------------------------------
(* Operations. *)

\* The interval of pollForReceivedPacket(); one poll waiting stands for many.
Poll ==
  /\ up /\ ~\E i \in DOMAIN turns : turns[i].kind = "poll"
  /\ turns' = Append(turns, Turn("poll"))
  /\ UNCHANGED <<link, queue, asked, answers, chip, frames, faults>>

Connect ==
  /\ up /\ peer = "none" /\ ~connecting
  /\ connecting' = TRUE /\ helloSent' = TRUE
  /\ turns' = IF helloSent THEN turns ELSE Append(turns, Turn("hello"))
  /\ UNCHANGED <<up, peer, queue, asked, answers, chip, frames, faults>>

ConnectTimesOut ==
  /\ connecting /\ faults < MaxFaults /\ faults' = faults + 1
  /\ connecting' = FALSE /\ helloSent' = FALSE
  /\ UNCHANGED <<up, peer, queue, turns, asked, answers, chip, frames>>

SendFrame(s) ==
  /\ up /\ peer # "none" /\ outcome[s] = "none"
  /\ outcome' = [outcome EXCEPT ![s] = "pending"]
  /\ IF cur = NoSend
     THEN cur' = [send |-> s, left |-> Size[s]] /\ turns' = Append(turns, Turn("frag")) /\ UNCHANGED todo
     ELSE todo' = todo \cup {s} /\ UNCHANGED <<cur, turns>>
  /\ UNCHANGED <<link, asked, answers, chip, frames, faults>>

\* As if the sends waiting were only forgotten.
StopQueueForgotten == todo' = {} /\ UNCHANGED outcome

StopQueue ==
  /\ todo' = {}
  /\ outcome' = [s \in Sends |-> IF s \in todo THEN "rejected" ELSE outcome[s]]

Stop ==
  /\ up /\ up' = FALSE /\ connecting' = FALSE /\ helloSent' = FALSE /\ peer' = "none"
  /\ StopQueue
  /\ UNCHANGED <<cur, turns, asked, answers, chip, frames, faults>>

Next ==
  \/ Issue \/ TxDone \/ Stray \/ Answer \/ CommandTimesOut
  \/ \E flag \in {"good", "bad"} : FrameArrives(flag)
  \/ Poll \/ Connect \/ ConnectTimesOut \/ Stop \/ \E s \in Sends : SendFrame(s)

\* Commands are issued and answered, and a transmission ends.
Fairness == WF_vars(Issue) /\ WF_vars(Answer) /\ WF_vars(TxDone)

Spec == Init /\ [][Next]_vars /\ Fairness

-----------------------------------------------------------------------------
\* While nothing has timed out, a radio whose turn is over listens: whatever
\* polls, HELLOs and fragments take turns, none leaves the node deaf.
LoraListens == (faults = 0 /\ turns = <<>>) => mode = "rx"

\* Every send() settles: through the turns of others, a command that times out,
\* answers that come late and a stop.
LoraSendSettles == \A s \in Sends : outcome[s] = "pending" ~> outcome[s] # "pending"

\* "A real chip mid-transmit has no RX result to offer anyway": what the poll
\* after a transmission reads is not the node's own frame.
LoraPeerIsOther == peer # "self"
=============================================================================
