---------------------------- MODULE PacedSender ----------------------------
(***************************************************************************)
(* The paced sender of webrtc/modules/pacing/paced_sender.cc.              *)
(*                                                                         *)
(* One critical section (critsect_) protects all of the pacer's state, so *)
(* every public method (SendPacket, Pause, Resume, SetStatus,              *)
(* UpdateBitrate) is one atomic action.  Process() is the only method that *)
(* leaves the lock: around callback_->TimeToSendPacket and around          *)
(* callback_->TimeToSendPadding.  It is therefore a thread of its own with *)
(* a program counter `pc`; every other action may run while it is inside  *)
(* a callback, which also covers a callback that re-enters the pacer.      *)
(*                                                                         *)
(* Time.  Only two differences of the clock are ever read: now minus      *)
(* time_last_update_ (used as min(30, .) and > 0) and now minus           *)
(* time_last_send_ (used as > 30).  They are kept as                       *)
(* elapsed_since_update, saturated at kMaxIntervalTimeMs, and              *)
(* elapsed_since_send, saturated at kMaxQueueTimeWithoutSendingMs + 1;     *)
(* saturation changes none of these comparisons.                          *)
(*                                                                         *)
(* Packets are handed over by id: the i-th SendPacket call is handed[i],   *)
(* a ghost record of the descriptor and the band it was put in.  The queue *)
(* stores ids; `wire` is the ghost order in which packets reach the        *)
(* transport (returned true to the caller, or passed to TimeToSendPacket). *)
(***************************************************************************)
EXTENDS Integers, Sequences, FiniteSets, SequencesExt

CONSTANTS
    Packets,          \* descriptors [ssrc, seq, prio, bytes] the producer may hand over
    InitialBitrate,   \* target_bitrate_kbps given to the constructor
    Bitrates,         \* target bitrates UpdateBitrate may be called with
    PadUpToBitrates,  \* pad_up_to_bitrate_kbps values UpdateBitrate may be called with
    PaceNum, PaceDen, \* pace_multiplier_ = PaceNum / PaceDen
    ClockSteps,       \* the amounts the clock may advance by in one step
    MaxHandovers,     \* bound on the number of SendPacket calls
    MaxStalls         \* bound on the number of clock gaps of 2^31 ms or more

Bands == {"high", "normal", "low"}

ASSUME /\ \A p \in Packets : p.prio \in Bands /\ p.bytes \in Nat
       /\ InitialBitrate \in Bitrates
       /\ PaceNum \in Nat /\ PaceDen \in Nat \ {0}
       /\ ClockSteps \subseteq Nat \ {0}
       /\ MaxHandovers \in Nat /\ MaxStalls \in Nat

\* Constants of paced_sender.cc.
kMinPacketLimitMs == 5
kMaxIntervalTimeMs == 30
kMaxQueueTimeWithoutSendingMs == 30
kMaxPaddingKbps == 800

\* Process() stores now - time_last_update_ in an int: after a gap of
\* 2^31 ms or more the difference it reads is negative.  Its exact value
\* is never used, only that it is <= 0.
Wrapped == -1

VARIABLES
    enabled, paused,
    media_budget, padding_budget, pad_up_to_bitrate_budget,
    packet_list,          \* [Bands -> Seq(id)]: PacketList::packet_list_
    sequence_number_set,  \* [Bands -> SUBSET seq]: PacketList::sequence_number_set_
    elapsed_since_update, \* (int)(now - time_last_update_), saturated, or Wrapped
    elapsed_since_send,   \* now - time_last_send_, saturated
    pc,                   \* where Process() is: idle, send, relock, pad
    in_flight,            \* id passed to TimeToSendPacket (0 when none)
    padding_needed,       \* argument of TimeToSendPadding
    stalls,               \* clock gaps of 2^31 ms or more so far
    handed, wire          \* ghost history

budgets == <<media_budget, padding_budget, pad_up_to_bitrate_budget>>
queues == <<packet_list, sequence_number_set>>
clock == <<elapsed_since_update, elapsed_since_send, stalls>>
process == <<pc, in_flight, padding_needed>>
ghost == <<handed, wire>>
vars == <<enabled, paused, budgets, queues, clock, process, ghost>>

Max2(a, b) == IF a >= b THEN a ELSE b
Min2(a, b) == IF a <= b THEN a ELSE b
\* C++ integer division truncates toward zero; \div rounds down.
CDiv(a, b) == IF a < 0 THEN -((-a) \div b) ELSE a \div b

Pkt(id) == handed[id].pkt

-----------------------------------------------------------------------------
(* IntervalBudget *)

NewBudget(rate) == [target_rate_kbps |-> rate, bytes_remaining |-> 0]

set_target_rate_kbps(b, rate) == [b EXCEPT !.target_rate_kbps = rate]

\* Mutant: the debt of the last interval is never paid back.
IncreaseBudget_NoPayback(b, delta_time_ms) ==
    LET bytes == (b.target_rate_kbps * delta_time_ms) \div 8
    IN  [b EXCEPT !.bytes_remaining = IF @ < 0 THEN @ ELSE bytes]

\* Mutant: unused bytes are carried over to the next interval.
IncreaseBudget_Accumulate(b, delta_time_ms) ==
    LET bytes == (b.target_rate_kbps * delta_time_ms) \div 8
    IN  [b EXCEPT !.bytes_remaining = @ + bytes]

IncreaseBudget(b, delta_time_ms) ==
    LET bytes == (b.target_rate_kbps * delta_time_ms) \div 8
    IN  [b EXCEPT !.bytes_remaining = IF @ < 0 THEN @ + bytes ELSE bytes]

UseBudget(b, bytes) ==
    [b EXCEPT !.bytes_remaining =
                 Max2(@ - bytes, CDiv(-100 * b.target_rate_kbps, 8))]

\* UpdateBytesPerInterval: IncreaseBudget on the three budgets, a triple.
UpdateBytesPerInterval(bs, delta_time_ms) ==
    [i \in 1..3 |-> IncreaseBudget(bs[i], delta_time_ms)]

\* media_budget_ runs at pace_multiplier_ * target_bitrate_kbps, truncated to int.
MediaRate(kbps) == (PaceNum * kbps) \div PaceDen

-----------------------------------------------------------------------------
(* PacketList *)

\* Mutant: push_back does not record the sequence number in the set.
PushBack_NoSetInsert(b, id, p) ==
    IF p.seq \in sequence_number_set[b]
    THEN UNCHANGED queues
    ELSE /\ packet_list' = [packet_list EXCEPT ![b] = Append(@, id)]
         /\ UNCHANGED sequence_number_set

\* push_back: a sequence number already in the list is dropped.
PushBack(b, id, p) ==
    IF p.seq \in sequence_number_set[b]
    THEN UNCHANGED queues
    ELSE /\ packet_list' = [packet_list EXCEPT ![b] = Append(@, id)]
         /\ sequence_number_set' = [sequence_number_set EXCEPT ![b] = @ \cup {p.seq}]

-----------------------------------------------------------------------------
(* PacedSender, public methods other than Process *)

Init ==
    /\ enabled = FALSE
    /\ paused = FALSE
    \* The constructor ends with UpdateBytesPerInterval(kMinPacketLimitMs).
    /\ media_budget = IncreaseBudget(NewBudget(MediaRate(InitialBitrate)), kMinPacketLimitMs)
    /\ padding_budget = IncreaseBudget(NewBudget(kMaxPaddingKbps), kMinPacketLimitMs)
    /\ pad_up_to_bitrate_budget = IncreaseBudget(NewBudget(0), kMinPacketLimitMs)
    /\ packet_list = [b \in Bands |-> <<>>]
    /\ sequence_number_set = [b \in Bands |-> {}]
    /\ elapsed_since_update = 0
    /\ stalls = 0
    \* time_last_send_ is not in the initialiser list: a default TickTime,
    \* tick 0, which is far in the past.
    /\ elapsed_since_send = kMaxQueueTimeWithoutSendingMs + 1
    /\ pc = "idle"
    /\ in_flight = 0
    /\ padding_needed = 0
    /\ handed = <<>>
    /\ wire = <<>>

Pause ==
    /\ paused' = TRUE
    /\ UNCHANGED <<enabled, budgets, queues, clock, process, ghost>>

Resume ==
    /\ paused' = FALSE
    /\ UNCHANGED <<enabled, budgets, queues, clock, process, ghost>>

SetStatus(enable) ==
    /\ enabled' = enable
    /\ UNCHANGED <<paused, budgets, queues, clock, process, ghost>>

UpdateBitrate(target_bitrate_kbps, pad_up_to_bitrate_kbps) ==
    /\ media_budget' = set_target_rate_kbps(media_budget, MediaRate(target_bitrate_kbps))
    /\ pad_up_to_bitrate_budget' =
           set_target_rate_kbps(pad_up_to_bitrate_budget, pad_up_to_bitrate_kbps)
    /\ UNCHANGED <<enabled, paused, padding_budget, queues, clock, process, ghost>>

\* UpdateMediaBytesSent: time_last_send_ = now, debit media and pad-up-to.
UpdateMediaBytesSent(media, pad_up_to, bytes) ==
    /\ elapsed_since_send' = 0
    /\ media_budget' = UseBudget(media, bytes)
    /\ pad_up_to_bitrate_budget' = UseBudget(pad_up_to, bytes)

\* SendPacket(priority, ssrc, sequence_number, capture_time_ms, bytes), one
\* action per outcome.  The id of the call is Len(handed) + 1.
HandOver(p, band) ==
    /\ Len(handed) < MaxHandovers
    /\ handed' = Append(handed, [pkt |-> p, band |-> band])

\* !enabled_: "We can send now."
SendPacketDisabled(p) ==
    /\ ~enabled
    /\ HandOver(p, "none")
    /\ UpdateMediaBytesSent(media_budget, pad_up_to_bitrate_budget, p.bytes)
    /\ wire' = Append(wire, Len(handed) + 1)
    /\ UNCHANGED <<enabled, paused, padding_budget, queues, elapsed_since_update, stalls,
                   process>>

\* paused_: high goes to the high list, normal falls through to low, and
\* both go to the normal list.
SendPacketPaused(p) ==
    LET band == IF p.prio = "high" THEN "high" ELSE "normal"
    IN  /\ enabled /\ paused
        /\ HandOver(p, band)
        /\ PushBack(band, Len(handed) + 1, p)
        /\ UNCHANGED <<enabled, paused, budgets, clock, process, wire>>

\* The list of the packet's priority is empty and the media budget is left.
\* Mutant: the fast path lacks its return and falls through to push_back.
SendPacketNow_FallThrough(p) ==
    /\ enabled /\ ~paused
    /\ packet_list[p.prio] = <<>>
    /\ media_budget.bytes_remaining > 0
    /\ HandOver(p, p.prio)
    /\ UpdateMediaBytesSent(media_budget, pad_up_to_bitrate_budget, p.bytes)
    /\ wire' = Append(wire, Len(handed) + 1)
    /\ PushBack(p.prio, Len(handed) + 1, p)
    /\ UNCHANGED <<enabled, paused, padding_budget, elapsed_since_update, stalls,
                   process>>

SendPacketNow(p) ==
    /\ enabled /\ ~paused
    /\ packet_list[p.prio] = <<>>
    /\ media_budget.bytes_remaining > 0
    /\ HandOver(p, p.prio)
    /\ UpdateMediaBytesSent(media_budget, pad_up_to_bitrate_budget, p.bytes)
    /\ wire' = Append(wire, Len(handed) + 1)
    /\ UNCHANGED <<enabled, paused, padding_budget, queues, elapsed_since_update, stalls,
                   process>>

SendPacketQueued(p) ==
    /\ enabled /\ ~paused
    /\ packet_list[p.prio] # <<>> \/ media_budget.bytes_remaining <= 0
    /\ HandOver(p, p.prio)
    /\ PushBack(p.prio, Len(handed) + 1, p)
    /\ UNCHANGED <<enabled, paused, budgets, clock, process, wire>>

SendPacket(p) ==
    \/ SendPacketDisabled(p)
    \/ SendPacketPaused(p)
    \/ SendPacketNow(p)
    \/ SendPacketQueued(p)

-----------------------------------------------------------------------------
(* Process().  The steps taken with critsect_ held, from the clock read    *)
(* up to a callback or the return, are one action; the callbacks are      *)
(* actions of their own, and so is re-entering the lock after             *)
(* TimeToSendPacket, which continues the while loop.                      *)

\* GetNextPacket: the lists it may take from, in order.  With the media
\* budget used up only high and normal, and only if nothing was sent for
\* more than kMaxQueueTimeWithoutSendingMs.
\* Mutant: no kMaxQueueTimeWithoutSendingMs rule.
Candidates_NoStarvationRule(media) ==
    IF media.bytes_remaining <= 0 THEN <<>> ELSE <<"high", "normal", "low">>

Candidates(media) ==
    IF media.bytes_remaining <= 0
    THEN IF elapsed_since_send > kMaxQueueTimeWithoutSendingMs
         THEN <<"high", "normal">> ELSE <<>>
    ELSE <<"high", "normal", "low">>

NextIndex(media) == SelectInSeq(Candidates(media), LAMBDA b : packet_list[b] # <<>>)

\* GetNextPacket returns true: GetNextPacketFromList pops the head, charges
\* it through UpdateMediaBytesSent, and the loop calls TimeToSendPacket.
\* Mutant: GetNextPacketFromList does not fill in its out-parameters, so
\* TimeToSendPacket is called with whatever they held.
GetNextPacket_NoOutput(media, padding, pad_up_to) ==
    /\ NextIndex(media) > 0
    /\ LET b  == Candidates(media)[NextIndex(media)]
           id == Head(packet_list[b])
       IN  /\ UpdateMediaBytesSent(media, pad_up_to, Pkt(id).bytes)
           /\ padding_budget' = padding
           /\ packet_list' = [packet_list EXCEPT ![b] = Tail(@)]
           /\ sequence_number_set' = [sequence_number_set EXCEPT ![b] = @ \ {Pkt(id).seq}]
           /\ pc' = "send"
           /\ UNCHANGED <<in_flight, padding_needed>>

GetNextPacket(media, padding, pad_up_to) ==
    /\ NextIndex(media) > 0
    /\ LET b  == Candidates(media)[NextIndex(media)]
           id == Head(packet_list[b])
       IN  /\ UpdateMediaBytesSent(media, pad_up_to, Pkt(id).bytes)
           /\ padding_budget' = padding
           /\ packet_list' = [packet_list EXCEPT ![b] = Tail(@)]
           /\ sequence_number_set' = [sequence_number_set EXCEPT ![b] = @ \ {Pkt(id).seq}]
           /\ pc' = "send"
           /\ in_flight' = id
           /\ UNCHANGED padding_needed

AllListsEmpty == \A b \in Bands : packet_list[b] = <<>>

PaddingWanted(padding, pad_up_to) ==
    /\ AllListsEmpty
    /\ padding.bytes_remaining > 0
    /\ pad_up_to.bytes_remaining > 0

\* The loop ends and the padding branch is taken.
StartPadding(media, padding, pad_up_to) ==
    /\ NextIndex(media) = 0
    /\ PaddingWanted(padding, pad_up_to)
    /\ padding_needed' = Min2(padding.bytes_remaining, pad_up_to.bytes_remaining)
    /\ pc' = "pad"
    /\ media_budget' = media /\ padding_budget' = padding
    /\ pad_up_to_bitrate_budget' = pad_up_to
    /\ UNCHANGED <<queues, elapsed_since_send, in_flight>>

\* The loop ends and Process returns.
EndProcess(media, padding, pad_up_to) ==
    /\ NextIndex(media) = 0
    /\ ~PaddingWanted(padding, pad_up_to)
    /\ pc' = "idle"
    /\ media_budget' = media /\ padding_budget' = padding
    /\ pad_up_to_bitrate_budget' = pad_up_to
    /\ UNCHANGED <<queues, elapsed_since_send, in_flight, padding_needed>>

DrainLoop(media, padding, pad_up_to) ==
    \/ GetNextPacket(media, padding, pad_up_to)
    \/ StartPadding(media, padding, pad_up_to)
    \/ EndProcess(media, padding, pad_up_to)

\* Mutant: time_last_update_ = now is moved into the if, so a skipped call
\* leaves the old time in place.
ProcessSkip_NoReset ==
    /\ pc = "idle"
    /\ paused \/ elapsed_since_update <= 0
    /\ UNCHANGED <<enabled, paused, budgets, queues, clock, process, ghost>>

\* Paused, or no time elapsed (or the int difference wrapped): only
\* time_last_update_ = now.
ProcessSkip ==
    /\ pc = "idle"
    /\ paused \/ elapsed_since_update <= 0
    /\ elapsed_since_update' = 0
    /\ UNCHANGED <<enabled, paused, budgets, queues, elapsed_since_send, stalls,
                   process, ghost>>

\* UpdateBytesPerInterval(min(kMaxIntervalTimeMs, elapsed)), then the loop.
ProcessTick ==
    LET b == UpdateBytesPerInterval(budgets, Min2(kMaxIntervalTimeMs, elapsed_since_update))
    IN  /\ pc = "idle"
        /\ ~paused /\ elapsed_since_update > 0
        /\ elapsed_since_update' = 0
        /\ DrainLoop(b[1], b[2], b[3])
        /\ UNCHANGED <<enabled, paused, stalls, ghost>>

Process == ProcessSkip \/ ProcessTick

\* callback_->TimeToSendPacket with the lock released: the packet reaches
\* the transport.
TimeToSendPacket ==
    /\ pc = "send"
    /\ wire' = Append(wire, in_flight)
    /\ in_flight' = 0
    /\ pc' = "relock"
    /\ UNCHANGED <<enabled, paused, budgets, queues, clock, padding_needed, handed>>

\* critsect_->Enter() and the next round of the while loop.
Relock ==
    /\ pc = "relock"
    /\ DrainLoop(media_budget, padding_budget, pad_up_to_bitrate_budget)
    /\ UNCHANGED <<enabled, paused, elapsed_since_update, stalls, ghost>>

\* callback_->TimeToSendPadding returns the bytes it sent, here none or all;
\* then, with the lock held again, all three budgets are charged.
TimeToSendPadding ==
    /\ pc = "pad"
    /\ \E bytes_sent \in {0, padding_needed} :
          /\ media_budget' = UseBudget(media_budget, bytes_sent)
          /\ padding_budget' = UseBudget(padding_budget, bytes_sent)
          /\ pad_up_to_bitrate_budget' = UseBudget(pad_up_to_bitrate_budget, bytes_sent)
    /\ pc' = "idle"
    /\ padding_needed' = 0
    /\ UNCHANGED <<enabled, paused, queues, clock, in_flight, ghost>>

\* TickTime advances by d ms.  A wrapped difference stays negative: it
\* turns positive only after another 2^31 ms, a gap Stall stands for.
AdvanceClock(d) ==
    /\ elapsed_since_update' =
           IF elapsed_since_update = Wrapped THEN Wrapped
           ELSE Min2(elapsed_since_update + d, kMaxIntervalTimeMs)
    /\ elapsed_since_send' = Min2(elapsed_since_send + d, kMaxQueueTimeWithoutSendingMs + 1)
    /\ UNCHANGED <<enabled, paused, budgets, queues, stalls, process, ghost>>

\* TickTime advances by 2^31 ms or more (the host thread is held up, the
\* machine sleeps).  The int64 differences only grow; the int that
\* Process() will read is negative, or, once the gap reaches 2^32 ms, any
\* value at all, which ordinary steps reach as well.
Stall ==
    /\ stalls < MaxStalls
    /\ stalls' = stalls + 1
    /\ elapsed_since_update' = Wrapped
    /\ elapsed_since_send' = kMaxQueueTimeWithoutSendingMs + 1
    /\ UNCHANGED <<enabled, paused, budgets, queues, process, ghost>>

-----------------------------------------------------------------------------

Environment ==
    \/ Pause \/ Resume
    \/ \E e \in BOOLEAN : SetStatus(e)
    \/ \E t \in Bitrates, u \in PadUpToBitrates : UpdateBitrate(t, u)
    \/ \E p \in Packets : SendPacket(p)

Driver == Process \/ TimeToSendPacket \/ Relock \/ TimeToSendPadding

Next ==
    \/ Environment
    \/ Driver
    \/ \E d \in ClockSteps : AdvanceClock(d)
    \/ Stall

\* TimeUntilNextProcess(): the module process thread calls Process() when
\* it returns 0.  It reads the difference as int64, which has not wrapped.
TimeUntilNextProcess ==
    IF elapsed_since_update = Wrapped THEN 0
    ELSE IF elapsed_since_update <= 0 THEN kMinPacketLimitMs
    ELSE IF elapsed_since_update >= kMinPacketLimitMs THEN 0
    ELSE kMinPacketLimitMs - elapsed_since_update

\* The host calls Process() once TimeUntilNextProcess() reaches 0,
\* callbacks return, the clock runs.
Fairness ==
    /\ WF_vars(TimeUntilNextProcess = 0 /\ Process)
    /\ WF_vars(TimeToSendPacket)
    /\ WF_vars(Relock)
    /\ WF_vars(TimeToSendPadding)
    /\ WF_vars(\E d \in ClockSteps : AdvanceClock(d))

Spec == Init /\ [][Next]_vars
FairSpec == Spec /\ Fairness

-----------------------------------------------------------------------------
(* Properties *)

Ids == 1..MaxHandovers

Queued(id, bs) == \E b \in bs : id \in ToSet(packet_list[b])

OnWire(id) == id \in ToSet(wire)

BudgetType == [target_rate_kbps : Int, bytes_remaining : Int]

TypeOK ==
    /\ enabled \in BOOLEAN /\ paused \in BOOLEAN
    /\ {media_budget, padding_budget, pad_up_to_bitrate_budget} \subseteq BudgetType
    /\ packet_list \in [Bands -> Seq(Ids)]
    /\ sequence_number_set \in [Bands -> SUBSET {p.seq : p \in Packets}]
    /\ elapsed_since_update \in {Wrapped} \cup 0..kMaxIntervalTimeMs
    /\ elapsed_since_send \in 0..(kMaxQueueTimeWithoutSendingMs + 1)
    /\ stalls \in 0..MaxStalls
    /\ pc \in {"idle", "send", "relock", "pad"}
    /\ in_flight \in {0} \cup Ids
    /\ padding_needed \in Nat
    /\ handed \in Seq([pkt : Packets, band : Bands \cup {"none"}])
    /\ wire \in Seq(Ids)

\* The spec's core shaping rule: "idle periods do not create burst credit".
\* IncreaseBudget resets a budget that is not in debt, and Process clamps
\* the interval to kMaxIntervalTimeMs, so however long the pacer idles and
\* whatever UpdateBitrate does in between, no budget holds more than one
\* 30 ms refill at the highest rate it can have.
RefillCap(rates) == (Max(rates) * kMaxIntervalTimeMs) \div 8

NoIdleCredit ==
    /\ media_budget.bytes_remaining <= RefillCap({MediaRate(r) : r \in Bitrates})
    /\ padding_budget.bytes_remaining <= RefillCap({kMaxPaddingKbps})
    /\ pad_up_to_bitrate_budget.bytes_remaining <= RefillCap(PadUpToBitrates \cup {0})

\* PacketList keeps sequence_number_set_ equal to the sequence numbers in
\* packet_list_, each once: push_back, pop_front and the GetNextPacket /
\* SendPacket paths that call them never let the two drift apart.
PacketListConsistent ==
    \A b \in Bands :
        /\ sequence_number_set[b] = {Pkt(id).seq : id \in ToSet(packet_list[b])}
        /\ \A i, j \in DOMAIN packet_list[b] :
              i # j => Pkt(packet_list[b][i]).seq # Pkt(packet_list[b][j]).seq

\* A packet handed to SendPacket reaches the transport at most once, and is
\* never both still queued (or in TimeToSendPacket) and already sent: the
\* fast path, GetNextPacketFromList's pop and the unlocked callback never
\* duplicate a packet.
Occurrences(id) ==
    LET InList(b) == {i \in DOMAIN packet_list[b] : packet_list[b][i] = id}
    IN  Cardinality(InList("high")) + Cardinality(InList("normal"))
          + Cardinality(InList("low")) + (IF in_flight = id THEN 1 ELSE 0)
          + Cardinality({i \in DOMAIN wire : wire[i] = id})

AtMostOnce == \A id \in Ids : Occurrences(id) <= 1

\* Once the pacer stays resumed, every queued high or normal priority packet
\* is eventually passed to TimeToSendPacket, whatever the bitrate (even 0):
\* GetNextPacket's kMaxQueueTimeWithoutSendingMs rule sends it when the
\* media budget is used up.
HighNormalDelivered ==
    (<>[]~paused) =>
        \A id \in Ids : Queued(id, {"high", "normal"}) ~> OnWire(id)

\* Once the pacer stays resumed at a positive media rate, every queued low
\* priority packet is eventually sent: IncreaseBudget pays the media debt
\* back, so the budget becomes positive again.
LowDelivered ==
    (<>[](~paused /\ media_budget.target_rate_kbps > 0)) =>
        \A id \in Ids : Queued(id, {"low"}) ~> OnWire(id)

\* Both delivery promises together, under their own premises.
Delivered == HighNormalDelivered /\ LowDelivered

\* Process() enters a callback: TimeToSendPacket or TimeToSendPadding.
StartsCallback == pc \in {"idle", "relock"} /\ pc' \in {"send", "pad"}

\* The spec: "When enabled == false ... no callback is ever invoked from
\* process"; Process() never reads enabled_.
DisabledProcessSilent == [][StartsCallback => enabled]_vars

\* The spec: "While paused, process makes no callbacks"; Process() reads
\* paused_ once, before its loop, and Pause() may run during a callback.
PausedProcessSilent == [][StartsCallback => ~paused]_vars

\* The spec: "the pacer must not send duplicates" of a packet re-enqueued
\* while a copy is pending.  SendPacket de-duplicates per list, and while
\* paused it puts low priority packets in the normal list.
NoDuplicatePending ==
    \A i, j \in 1..Len(handed) :
        (i # j /\ Queued(i, Bands) /\ Queued(j, Bands)) =>
            <<Pkt(i).ssrc, Pkt(i).seq>> # <<Pkt(j).ssrc, Pkt(j).seq>>

\* The spec: "Within one priority band, packets are delivered ... in enqueue
\* order".  Two packets given to the same list reach the transport in the
\* order SendPacket was called, counting the ones it told to send now.
BandFifo ==
    \A i, j \in DOMAIN wire :
        (i < j /\ handed[wire[i]].band # "none") =>
            ~(handed[wire[j]].band = handed[wire[i]].band /\ wire[j] < wire[i])

\* The spec: SendPacket returns false "iff the packet has been accepted into
\* a queue and will be delivered later".  A packet that is neither sent nor
\* queued is only dropped when the same (ssrc, sequence number) is queued.
DropOnlyDuplicates ==
    [][\A id \in Ids :
         (/\ id = Len(handed') /\ id > Len(handed)
          /\ id \notin ToSet(wire')
          /\ \A b \in Bands : id \notin ToSet(packet_list'[b]))
         => \E b \in Bands : \E q \in ToSet(packet_list[b]) :
               /\ Pkt(q).ssrc = handed'[id].pkt.ssrc
               /\ Pkt(q).seq = handed'[id].pkt.seq
      ]_vars


-----------------------------------------------------------------------------
(* Refinement.  The pacer implements PacerAbstract: a packet is pending   *)
(* while it is in one of the three lists or inside TimeToSendPacket.       *)

Abstract == INSTANCE PacerAbstract
                WITH handed <- [i \in DOMAIN handed |-> handed[i].pkt],
                     pending <- {id \in 1..Len(handed) :
                                    Queued(id, Bands) \/ in_flight = id}

\* Every step of SendPacket, Process and the callbacks is a step of the
\* promise: a packet handed over is sent, queued, or dropped only as a
\* duplicate of a pending one, and a queued packet leaves the lists only
\* through GetNextPacketFromList into TimeToSendPacket and onto the wire,
\* never lost on the way.
ImplementsAbstract == Abstract!ASpec
=============================================================================
