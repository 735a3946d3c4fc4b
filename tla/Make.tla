-------------------------------- MODULE Make --------------------------------
(***************************************************************************)
(* Make of package async (make.go): its options, which are applied one     *)
(* after the other while time goes by, the size of the channel they lead   *)
(* to (chan.go, round2_64.go), and how long it tries to have an executor   *)
(* take the promise.  Module Future has what comes after.                  *)
(*                                                                         *)
(* Time is counted from 1 in steps; 0 is the zero time.                    *)
(***************************************************************************)
EXTENDS Integers, Sequences, FiniteSetsExt

CONSTANTS
  Calls,    \* the options of a call: sequences of records [with, arg]
  Patience, \* the options are applied by then
  MaxTime,  \* the clock stops there
  Width     \* an int below zero aside, its bits: 63 or 31

With == {"StreamAndSize", "WaitTimeout", "Wait", "Deadline", "Timeout"}

ASSUME MakeAssumption ==
  /\ Patience \in Nat \ {0} /\ MaxTime \in Nat /\ Patience <= MaxTime
  /\ Width \in Nat /\ Width > 12
  /\ \A c \in Calls :
       /\ c \in Seq([with : With, arg : Int])
       /\ \A k \in DOMAIN c : c[k].arg < 2^Width

VARIABLES
  options,   \* of this call of Make
  applied,   \* how many of them have been
  opt,       \* opt: WaitTimeout, StreamBuffer, Deadline
  size,      \* size of the channel it has, 0 if none
  expires,   \* when its timer does
  stage,     \* where it is
  now,       \* time.Now()
  ended,     \* is ctx done?
  executor,  \* what TryExecute would do
  \* History, of the options since the last deadline that had passed.
  bounds,    \* the waiting times they asked for
  waits      \* is WithWait one of them?

optionVars == <<options, applied, opt, bounds, waits>>
worldVars == <<now, ended, executor>>
vars == <<optionVars, size, expires, stage, worldVars>>

Init ==
  /\ options \in Calls
  /\ applied = 0
  /\ opt = [WaitTimeout |-> 0, StreamBuffer |-> 1, Deadline |-> 0]
  /\ size = 0 /\ expires = 0 /\ stage = "options"
  /\ now = 1 /\ ended \in BOOLEAN /\ executor \in {"free", "busy", "closed"}
  /\ bounds = {} /\ waits = FALSE
-----------------------------------------------------------------------------
(* Options.                                                                *)

WithStreamAndSize(o, buf) ==
  [o EXCEPT !.StreamBuffer = IF buf < 2 THEN 2 ELSE buf]

WithWaitTimeout(o, timeout) ==
  IF timeout < 1 \/ (o.WaitTimeout > 0 /\ o.WaitTimeout < timeout)
  THEN o ELSE [o EXCEPT !.WaitTimeout = timeout]

WithWaitAlways(o) == [o EXCEPT !.WaitTimeout = -1]
WithWait(o) == IF o.WaitTimeout = 0 THEN [o EXCEPT !.WaitTimeout = -1] ELSE o

\* The shorter of two waiting times; less than 1 is none.
Shorter(wait, timeout) ==
  IF wait < 1 \/ wait > timeout THEN timeout ELSE wait

WithDeadline(o, deadline) ==
  IF deadline = 0 THEN o
  ELSE [o EXCEPT !.Deadline = deadline,
                 !.WaitTimeout = IF deadline - now < 1 THEN 0
                                 ELSE Shorter(@, deadline - now)]

WithTimeout(o, timeout) ==
  IF timeout < 1 THEN o
  ELSE [o EXCEPT !.WaitTimeout = Shorter(@, timeout),
                 !.Deadline = now + timeout]

\* For the history: the waiting time an option asks for, and whether it is one
\* or a deadline that has passed.
Bound(o) == IF o.with = "Deadline" /\ o.arg # 0 THEN o.arg - now ELSE o.arg
Bounded(o) == o.with \in {"WaitTimeout", "Deadline", "Timeout"} /\ Bound(o) > 0
Passed(o) == o.with = "Deadline" /\ o.arg # 0 /\ Bound(o) < 1

\* o(&opt)
Applied(o) ==
  IF o.with = "StreamAndSize" THEN WithStreamAndSize(opt, o.arg)
  ELSE IF o.with = "WaitTimeout" THEN WithWaitTimeout(opt, o.arg)
  ELSE IF o.with = "Wait" THEN WithWait(opt)
  ELSE IF o.with = "Deadline" THEN WithDeadline(opt, o.arg)
  ELSE WithTimeout(opt, o.arg)

\* for _, o := range options { o(&opt) }
Apply ==
  LET o == options[applied + 1]
  IN  /\ stage = "options"
      /\ applied < Len(options)
      /\ applied' = applied + 1
      /\ opt' = Applied(o)
      /\ bounds' = IF Passed(o) THEN {}
                   ELSE IF Bounded(o) THEN bounds \cup {Bound(o)} ELSE bounds
      /\ waits' = (~Passed(o) /\ (waits \/ o.with = "Wait"))
      /\ UNCHANGED <<options, size, expires, stage, worldVars>>
-----------------------------------------------------------------------------
(* The channel.                                                            *)

\* The bits of x, and what x |= x >> 1, 2, 4, 8 and 16 make of them: each is
\* smeared over the 31 below it.
Positions == 0..(Width - 1)
Bits(x) == {b \in Positions : (x \div 2^b) % 2 = 1}
Smear(bits) == {b \in Positions : \E h \in bits : h - b \in 0..31}

\* The number with these bits, from the lowest on.
Sums(bits) ==
  LET s[k \in 0..Width] ==
        IF k = 0 THEN 0
        ELSE s[k - 1] + IF k - 1 \in bits THEN 2^(k - 1) ELSE 0
  IN  s
Number(bits) == Sums(bits)[Width]

Same(n) == n
Below(n) == n - 1

roundupPow2(n) == IF n < 1 THEN 0 ELSE 1 + Number(Smear(Bits(Below(n))))

PoolSizes == {2^k : k \in 0..12}

acquireChannel(n) ==
  IF n < 2 THEN 1
  ELSE IF roundupPow2(n) \in PoolSizes THEN roundupPow2(n)
  ELSE 4096

\* acquireChannel, setDeadline, and the timer if the waiting is limited.
Acquire ==
  /\ stage = "options"
  /\ applied = Len(options)
  /\ stage' = "trying"
  /\ size' = acquireChannel(opt.StreamBuffer)
  /\ expires' = IF opt.WaitTimeout > 0 THEN now + opt.WaitTimeout ELSE 0
  /\ UNCHANGED <<optionVars, worldVars>>
-----------------------------------------------------------------------------
(* The loops, of which there is one for a limited wait and one for a wait  *)
(* without a limit; without a wait there is one attempt.                   *)

Waits == opt.WaitTimeout # 0
TimerFired == opt.WaitTimeout > 0 /\ now >= expires

Fails == stage' = "failed" /\ size' = 0

\* case <-ctx.Done(), case <-timer.C
GivesUp ==
  /\ stage = "trying"
  /\ Waits /\ (ended \/ TimerFired)
  /\ Fails
  /\ UNCHANGED <<optionVars, expires, worldVars>>

\* default: TryExecute.  When it is busy and Make waits, Make sleeps and
\* nothing has changed.
Try ==
  /\ stage = "trying"
  /\ ~(Waits /\ (ended \/ TimerFired))
  /\ \/ executor = "free" /\ stage' = "made" /\ UNCHANGED size
     \/ executor = "closed" /\ Fails
     \/ executor = "busy" /\ ~Waits /\ Fails
  /\ UNCHANGED <<optionVars, expires, worldVars>>

Running == Apply \/ Acquire \/ GivesUp \/ Try
-----------------------------------------------------------------------------
(* The world, while Make runs.                                             *)

Tick ==
  /\ stage \in {"options", "trying"}
  /\ now < IF stage = "options" THEN Patience ELSE MaxTime
  /\ now' = now + 1
  /\ UNCHANGED <<optionVars, size, expires, stage, ended, executor>>

ContextEnds ==
  /\ stage = "trying"
  /\ ~ended
  /\ ended' = TRUE
  /\ UNCHANGED <<optionVars, size, expires, stage, now, executor>>

\* Goroutines come free and are taken by others; Close is for good.
ExecutorChanges ==
  /\ stage = "trying"
  /\ executor # "closed"
  /\ executor' \in {"free", "busy", "closed"} \ {executor}
  /\ UNCHANGED <<optionVars, size, expires, stage, now, ended>>

Next == Running \/ Tick \/ ContextEnds \/ ExecutorChanges

Spec == Init /\ [][Next]_vars

\* Make's goroutine runs, and so does the clock.
FairSpec == Spec /\ WF_vars(Running) /\ WF_vars(Tick)
-----------------------------------------------------------------------------

\* A promise that says it is a stream has the channel of a stream, which by
\* itself decides in Handle and Complete; the channel is the smallest that
\* has the room asked for, unless more is asked for than any has.
SizeFits ==
  stage \in {"trying", "made"} =>
    /\ (opt.StreamBuffer > 1) <=> (size > 1)
    /\ size = Min({s \in PoolSizes : s >= opt.StreamBuffer} \cup {4096})

\* The options have asked for a wait without a limit and for no other, after
\* the last deadline that had passed: that one takes back what was asked for
\* before it (make.go:79).
Endless == waits /\ bounds = {}

\* Make returns, though the executor stays busy for ever and the context never
\* ends, unless the wait is without a limit.  It is, with no deadline among the
\* options, as make.go:111 has it; but also with WithWait behind a deadline
\* that has passed, which make.go:113 says a deadline overrides.
LimitedReturns ==
  stage = "trying" ~> \/ stage \in {"made", "failed"}
                      \/ Endless /\ executor = "busy" /\ ~ended
=============================================================================
