------------------------------ MODULE MarkerBus ------------------------------
(***************************************************************************)
(* The bus of the controllers (avr_firmware/src/net_c.c): no token is sent, *)
(* every device counts silent intervals since the last frame and transmits  *)
(* when the count has reached its address.  After a frame the master that   *)
(* sent last waits longest and sends a sync frame, which starts the count   *)
(* anew; devices without it send one after a longer silence.                *)
(*                                                                          *)
(* Time is in ticks of timer 2.  Tick advances it to the next timer event   *)
(* or edge of the carrier, and only when every due net_poll has run, but    *)
(* for devices that are in a long task of the control program.  A frame's   *)
(* length does not matter, all timers are off while it is heard.  The link  *)
(* to the PC is a device whose request comes from the PC (pc_link.c).       *)
(***************************************************************************)
EXTENDS Naturals, FiniteSets, FiniteSetsExt

CONSTANTS
  Devices,            \* addresses
  Link,               \* the address of the link to the PC
  PROPAGATION_DELAY, IBBPC_8, IBBPC_10, IBBPC_30, IBBPC_40,
  SyncMaster, SyncAny, \* ibbpc at which the last master, or anyone, sends a sync frame
  Delay,              \* the carrier is noticed, at either edge, so much later
  Starts,             \* device -> its timer when the last one is switched on: the cases
  Targets,            \* device -> the addresses it asks
  Faulty,             \* devices that may restart or be in a long task
  MaxFaults, MaxTransits  \* bounds: faults of any kind, packets from the PC

ASSUME BusAssumption ==
  /\ Devices \subseteq Nat \ {0} /\ Link \in Devices
  /\ Delay < PROPAGATION_DELAY /\ PROPAGATION_DELAY < IBBPC_8

VARIABLES
  dev,      \* device -> its timer, status and counters
  air,      \* the frames on the bus
  carrier,  \* idle, rising (not noticed yet) or falling
  edge,     \* ticks until the edge is noticed
  noise,    \* what the bytes are that a receiver gets: none (those sent),
            \* short (less than a header), sync (one, with its high bit set) or long
  misled,   \* history: a damaged frame was taken for a sync frame, or a device
            \* missed a frame, or the beginning of one
  transit, transit_accepted,   \* of the link
  faults, transits    \* what has happened so far

bus == <<air, carrier, edge, noise, misled>>
link == <<transit, transit_accepted, transits>>
vars == <<dev, bus, link, faults>>

Fault == faults < MaxFaults /\ faults' = faults + 1

-----------------------------------------------------------------------------
\* net_init
Started(t) ==
  [ptf |-> "idle_40", ocr |-> IBBPC_40, tcnt |-> t, on |-> TRUE, ibbpc_ev |-> 0,
   saved_ptf |-> "idle_40", saved_ocr |-> IBBPC_40, ibbpc |-> 0, ac |-> 0,
   sync |-> FALSE, master |-> FALSE, last |-> FALSE, data |-> FALSE, high |-> FALSE,
   task |-> FALSE, asked |-> "none", rx |-> "on"]

\* what a device may do to its record, in net_c.c's functions
IncAc(d, r) ==
  IF r.ac + 1 = d
  THEN [r EXCEPT !.ac = @ + 1, !.ptf = "access_time", !.high = TRUE]
  ELSE [r EXCEPT !.ac = @ + 1]

Idle40(d, r) ==
  LET q == IncAc(d, r) IN
  IF r.sync /\ q.ptf = "access_time"
  THEN [q EXCEPT !.ibbpc = 4]
  ELSE [IF r.sync THEN q ELSE r EXCEPT !.ibbpc = 4, !.ocr = IBBPC_10, !.ptf = "idle_10"]

\* start_transmit of a device that goes on with function p and interval o
StartTransmit(r, p, o) ==
  [r EXCEPT !.on = FALSE, !.tcnt = 0, !.ibbpc_ev = 0, !.saved_ptf = p, !.saved_ocr = o,
            !.ptf = "propagation_delay", !.ocr = PROPAGATION_DELAY, !.high = TRUE, !.rx = "off"]

Transmit(d, r, p, o, f) ==
  /\ dev' = [dev EXCEPT ![d] = StartTransmit(r, p, o)]
  /\ air' = air \cup {f}
  /\ IF carrier = "idle" THEN carrier' = "rising" /\ edge' = Delay ELSE UNCHANGED <<carrier, edge>>
  /\ UNCHANGED <<noise, misled>>

Becomes(d, r) == dev' = [dev EXCEPT ![d] = r] /\ UNCHANGED bus

-----------------------------------------------------------------------------
(***************************************************************************)
(* net_poll: one action for each function that ptf may point to.            *)
(***************************************************************************)
Pending(d) == dev[d].data \/ dev[d].ibbpc_ev > 0

\* one event and no more, and ptf called with HIGH_PRIORITY off
\* mutant: a device that has missed an event goes on
CalledLate(d, p) == dev[d].ibbpc_ev >= 1 /\ ~ dev[d].data /\ dev[d].ptf = p
Called(d, p) == dev[d].ibbpc_ev = 1 /\ ~ dev[d].data /\ dev[d].ptf = p
Polled(d) == [dev[d] EXCEPT !.ibbpc_ev = 0, !.high = FALSE, !.task = FALSE]

LoseSync(d) ==
  /\ dev[d].ibbpc_ev > 1 /\ ~ dev[d].data
  /\ Becomes(d, [Polled(d) EXCEPT !.ocr = IBBPC_40, !.ptf = "idle_40", !.sync = FALSE,
                                  !.rx = "on"])
  /\ UNCHANGED <<link, faults>>

PollIdle40(d) ==
  /\ Called(d, "idle_40")
  /\ Becomes(d, Idle40(d, Polled(d)))
  /\ UNCHANGED <<link, faults>>

SendsSync(r) == r.ibbpc + 1 >= SyncAny \/ (r.sync /\ r.last /\ r.ibbpc + 1 >= SyncMaster)

PollIdle10(d) ==
  LET r == [Polled(d) EXCEPT !.ibbpc = @ + 1] IN
  /\ Called(d, "idle_10") /\ ~ SendsSync(dev[d])
  /\ Becomes(d, IF r.sync THEN IncAc(d, r) ELSE r)
  /\ UNCHANGED <<link, faults>>

SendSyncFrame(d) ==
  /\ Called(d, "idle_10") /\ SendsSync(dev[d])
  /\ Transmit(d, [Polled(d) EXCEPT !.ac = 0, !.sync = TRUE, !.last = TRUE], "idle_40", IBBPC_40,
              [kind |-> "sync", master |-> d, slave |-> 0, from |-> d])
  /\ UNCHANGED <<link, faults>>

PropagationDelay(d) ==
  /\ Called(d, "propagation_delay")
  /\ Becomes(d, [Polled(d) EXCEPT !.ptf = dev[d].saved_ptf,
                                  !.ocr = dev[d].saved_ocr - PROPAGATION_DELAY, !.rx = "on"])
  /\ UNCHANGED <<link, faults>>

\* access_time without a request
PassTurn(d) ==
  /\ Called(d, "access_time")
  /\ d = Link => ~ transit
  /\ Becomes(d, [Polled(d) EXCEPT !.ocr = IBBPC_10, !.ptf = "idle_10"])
  /\ transit_accepted' = (transit_accepted /\ d # Link)
  /\ UNCHANGED <<transit, transits, faults>>

\* with one: send_request, or what came from the PC, of which some asks for no
\* answer (F_NO_ANSWER)
SendRequest(d) ==
  /\ Called(d, "access_time")
  /\ \E t \in Targets[d], k \in {"request", "quiet"} :
       (k = "quiet" => d = Link /\ transit) /\
       Transmit(d, [Polled(d) EXCEPT !.master = TRUE, !.last = TRUE, !.data = FALSE],
                "timeout_for_answer", IBBPC_30,
                [kind |-> k, master |-> d, slave |-> t, from |-> d])
  /\ transit_accepted' = IF d = Link THEN transit ELSE transit_accepted
  /\ UNCHANGED <<transit, transits, faults>>

\* the link tells the PC, and takes its next packet
EndOfTransit(d) ==
  IF d = Link /\ transit_accepted
  THEN transit' = FALSE /\ transit_accepted' = FALSE /\ UNCHANGED transits
  ELSE UNCHANGED link

\* mutant: the PC is not told of the timeout
TimeoutSilent(d) ==
  /\ Called(d, "timeout_for_answer")
  /\ Becomes(d, [Polled(d) EXCEPT !.master = FALSE, !.ocr = IBBPC_40, !.ptf = "idle_40",
                                  !.rx = "on"])
  /\ UNCHANGED <<link, faults>>
TimeoutForAnswer(d) ==
  /\ Called(d, "timeout_for_answer")
  /\ Becomes(d, [Polled(d) EXCEPT !.master = FALSE, !.ocr = IBBPC_40, !.ptf = "idle_40",
                                  !.rx = "on"])
  /\ EndOfTransit(d)
  /\ UNCHANGED faults

\* after DATA_RECIVED the event of the timer, if any, is left for the next poll
AnswerHasBeenReceived(d) ==
  /\ dev[d].data \/ Called(d, "answer_has_been_recived")
  /\ Becomes(d, [dev[d] EXCEPT !.ibbpc_ev = IF dev[d].data THEN @ ELSE 0, !.high = FALSE,
                               !.task = FALSE, !.master = FALSE, !.data = FALSE,
                               !.ptf = "idle_40", !.rx = "on"])
  /\ EndOfTransit(d)
  /\ UNCHANGED faults

\* a request that asks for no answer changes the device's program, most of them
\* take it out of the count
SendAnswer(d) ==
  /\ Called(d, "send_answer")
  /\ IF dev[d].asked = "quiet"
     THEN \E s \in {FALSE, dev[d].sync} :
            Becomes(d, [Polled(d) EXCEPT !.ocr = IBBPC_40, !.ptf = "idle_40", !.sync = s,
                                         !.rx = "on"])
     ELSE Transmit(d, Polled(d), "idle_40", IBBPC_40,
                   [kind |-> "answer", master |-> dev[d].ac, slave |-> d, from |-> d])
  /\ UNCHANGED <<link, faults>>

-----------------------------------------------------------------------------
(***************************************************************************)
(* The bus: INT0, on the edges of the carrier.  A device that transmits has *)
(* it off until propagation_delay.                                          *)
(***************************************************************************)
Listeners == {d \in Devices : dev[d].ptf # "propagation_delay"}

\* frames at once: sync frames of one byte look like one, others are a frame of
\* at least the longer one's length that does not pass the check
Mixed == Cardinality(air) > 1 /\ \E f \in air : f.kind # "sync"

\* the rising edge.  The frame is over as far as timers are concerned; it may
\* have been damaged: to less than a header, to a single byte with its high bit
\* set, or otherwise.
Capture ==
  /\ carrier = "rising" /\ edge = 0
  /\ dev' = [d \in Devices |->
       IF d \in Listeners
       THEN [dev[d] EXCEPT !.ibbpc_ev = 0, !.on = FALSE, !.tcnt = 0, !.data = FALSE]
       ELSE [dev[d] EXCEPT !.on = TRUE]]
  /\ carrier' = "falling" /\ edge' = Delay
  /\ \/ noise' = (IF Mixed THEN "long" ELSE "none") /\ UNCHANGED faults
     \/ Fault /\ noise' \in {"short", "sync", "long"}
  /\ misled' = (misled \/ noise' = "sync")
  /\ UNCHANGED <<air, link>>

\* a sync frame, or whatever is taken for one, starts the count, and makes
\* another device the last master
\* mutant: a device that was out of the count stays out
SyncedBefore(r) == [r EXCEPT !.ac = 0, !.last = FALSE, !.master = FALSE]
\* mutant: the frame is counted as a turn
SyncedOneOff(r) == [r EXCEPT !.sync = TRUE, !.ac = 1, !.last = FALSE, !.master = FALSE]
Synced(r) == [r EXCEPT !.sync = TRUE, !.ac = 0, !.last = FALSE, !.master = FALSE]

\* what device d makes of frame f.  The receiver is off from the edge to the
\* next net_poll if the frame was for d; what comes meanwhile is not heard.
Heard(d, f) ==
  LET r == [dev[d] EXCEPT !.ocr = IBBPC_40, !.on = TRUE, !.ptf = "idle_40", !.rx = "on"]
      s == [r EXCEPT !.sync = TRUE]
      t == [s EXCEPT !.last = FALSE, !.ac = f.master] IN
  CASE dev[d].rx = "off" \/ noise = "short" -> r
    [] dev[d].rx = "rest" \/ noise = "sync" \/ (noise = "none" /\ f.kind = "sync") -> Synced(r)
    [] OTHER ->
         CASE d = Link /\ transit_accepted /\ r.master ->
                [r EXCEPT !.ibbpc_ev = @ + 1, !.ptf = "answer_has_been_recived", !.rx = "off"]
           [] noise = "long" -> r
           [] r.master /\ f.master = d ->
                [s EXCEPT !.data = TRUE, !.ptf = "answer_has_been_recived", !.rx = "off"]
           [] f.slave = d -> [t EXCEPT !.high = TRUE, !.ptf = "send_answer", !.tcnt = 0,
                                       !.ocr = IBBPC_8, !.asked = f.kind, !.rx = "off"]
           [] OTHER -> t

\* the falling edge
Release ==
  /\ carrier = "falling" /\ edge = 0
  /\ \E f \in air : dev' = [d \in Devices |-> IF d \in Listeners THEN Heard(d, f) ELSE dev[d]]
  /\ air' = {} /\ carrier' = "idle" /\ noise' = "none"
  /\ misled' = (misled \/ \E d \in Listeners : dev[d].rx # "on")
  /\ UNCHANGED <<edge, link, faults>>

-----------------------------------------------------------------------------
(***************************************************************************)
(* Time.  Timer 2 clears itself at the compare value; one that has passed   *)
(* it counts to 256 first.                                                  *)
(***************************************************************************)
Left(d) == IF dev[d].tcnt < dev[d].ocr THEN dev[d].ocr - dev[d].tcnt
           ELSE dev[d].ocr + 256 - dev[d].tcnt
Running == {d \in Devices : dev[d].on}
Until == {Left(d) : d \in Running} \cup (IF carrier = "idle" THEN {} ELSE {edge})

Counted(d, n) ==
  IF d \notin Running THEN dev[d]
  ELSE IF Left(d) = n THEN [dev[d] EXCEPT !.tcnt = 0, !.ibbpc_ev = Min({@ + 1, 2})]
  ELSE [dev[d] EXCEPT !.tcnt = (@ + n) % 256]

Tick ==
  /\ \A d \in Devices : Pending(d) => dev[d].task
  /\ Until # {} /\ (carrier = "idle" \/ edge > 0)
  /\ LET n == Min(Until) IN
     /\ dev' = [d \in Devices |-> Counted(d, n)]
     /\ edge' = IF carrier = "idle" THEN edge ELSE edge - n
  /\ UNCHANGED <<air, carrier, noise, misled, link, faults>>

-----------------------------------------------------------------------------
\* the control program takes long: the next net_poll runs some time later, but
\* not while HIGH_PRIORITY keeps the program from running
Task(d) ==
  /\ Fault /\ d \in Faulty
  /\ Pending(d) /\ ~ dev[d].high /\ ~ dev[d].task
  /\ Becomes(d, [dev[d] EXCEPT !.task = TRUE])
  /\ UNCHANGED link

\* in the middle of a frame: what is left of it is nothing to the device, or
\* one byte that it takes for a sync frame
Restart(d) ==
  /\ Fault /\ d \in Faulty
  /\ \A f \in air : f.from # d
  /\ \E x \in IF carrier = "idle" THEN {"on"} ELSE {"off", "rest"} :
       Becomes(d, [Started(0) EXCEPT !.rx = x])
  /\ IF d = Link THEN transit' = FALSE /\ transit_accepted' = FALSE
     ELSE UNCHANGED <<transit, transit_accepted>>
  /\ UNCHANGED transits

\* lan_poll, udp_packet: a packet from the PC
Packet ==
  /\ transits < MaxTransits /\ transits' = transits + 1
  /\ ~ dev[Link].high /\ ~ transit
  /\ transit' = TRUE
  /\ UNCHANGED <<dev, bus, transit_accepted, faults>>

Init ==
  /\ \E o \in Starts : dev = [d \in Devices |-> Started(o[d])]
  /\ air = {} /\ carrier = "idle" /\ edge = 0 /\ noise = "none" /\ misled = FALSE
  /\ transit = FALSE /\ transit_accepted = FALSE /\ transits = 0
  /\ faults = 0

NetPoll(d) == \/ LoseSync(d) \/ PollIdle40(d) \/ PollIdle10(d) \/ SendSyncFrame(d)
              \/ PropagationDelay(d) \/ PassTurn(d) \/ SendRequest(d) \/ TimeoutForAnswer(d)
              \/ AnswerHasBeenReceived(d) \/ SendAnswer(d)

Next == \/ \E d \in Devices : NetPoll(d) \/ Task(d) \/ Restart(d)
        \/ Capture \/ Release \/ Tick \/ Packet

\* Time passes, edges are noticed and the main loop of a device runs; a task
\* ends.
Fairness == /\ WF_vars(Capture \/ Release \/ Tick)
            /\ \A d \in Devices : SF_vars(NetPoll(d))

Spec == Init /\ [][Next]_vars /\ Fairness

-----------------------------------------------------------------------------
(***************************************************************************)
(* Two devices do not transmit at once, but for sync frames, which look the *)
(* same together: neither after a restart, nor when one has been in a task  *)
(* for too long, nor after noise.  All rests on the intervals: the next     *)
(* address has its turn at 2 * IBBPC_40, the one after it 30 ticks later    *)
(* (net_c.c:169, :203, :222).  Two things can mislead the count: a damaged  *)
(* frame that is taken for a sync frame by those who hear it (:416), and a  *)
(* frame that a device misses as its receiver is off until it has answered  *)
(* the one before (:410, :467), whose count it goes on with.  (A restart in *)
(* the middle of a frame is of both kinds.)                                 *)
(***************************************************************************)
NoCollision == Mixed => misled

(***************************************************************************)
(* Whatever misled them, the devices do not collide for ever: the next     *)
(* sync frame, or the silence before it, makes their counts one again,      *)
(* though frames that collide are heard as noise (net_c.c:215, :223, :418). *)
(***************************************************************************)
CollisionsEnd == <>[]~ Mixed

(***************************************************************************)
(* Every device has its turn again and again, although nobody hands it a    *)
(* token: when faults are over the devices count together again             *)
(* (net_c.c:190, :215, :223).                                               *)
(***************************************************************************)
EveryTurn == \A d \in Devices : []<>(dev[d].ptf = "access_time")

(***************************************************************************)
(* A request from the PC is answered, or the PC told of the timeout, and    *)
(* the link takes the next packet (net_c.c:261, :298, :315, pc_link.c:106). *)
(***************************************************************************)
TransitEnds == transit ~> ~ transit

=============================================================================
