-------------------------------- MODULE Procs --------------------------------
(***************************************************************************)
(* New and Close as far as they touch the process: the options of New      *)
(* (options.go), and GOMAXPROCS, which maxprocs.Enable sets and Close      *)
(* restores.  GOMAXPROCS belongs to the process, New and Close to as many  *)
(* executors as it likes, from any goroutine.                              *)
(*                                                                         *)
(* The two calls of runtime.GOMAXPROCS in Enable, and the one of undo, are *)
(* steps of their own.  Options and files are read without other steps in  *)
(* between: nobody else touches the first, and the second do not change.   *)
(***************************************************************************)
EXTENDS CGroups

CONSTANTS
  Executors,      \* calls of New, and the executors they return
  Hosts,          \* the hosts, as CGroups has them, with h.env: is the
                  \* variable GOMAXPROCS set?, h.quota: the quota that the
                  \* process has, or Nil, h.sane: are the files in order?
  OptionLists,    \* sequences of options, as records [name, value, own]:
                  \* own is TRUE of an Option the user wrote
  Initial,        \* GOMAXPROCS before the first New
  DefaultLimit, DefaultIdle,
  Nil             \* a nil function

Numbers == {"min", "limit", "idle", "timeout"}
Fields == {"mode", "procs", "round"} \cup Numbers

\* A function for procs is what it gives: a number, the status undefined, or
\* an error.
IsOption(option) ==
  /\ option.name \in Fields \cup {"fails"}
  /\ option.own \in BOOLEAN
  /\ option.name \in Numbers => option.value \in Int
  /\ option.name = "procs" => option.value \in Int \cup {Nil, Error, Undefined}

IsOptionList(list) ==
  Len(list) \in Nat /\ \A k \in 1..Len(list) : IsOption(list[k])

\* What the files of the process's group show of its quota: what is a number
\* is the right one, and in order (h.sane) it is a number.
IsNumber(content) ==
  /\ content \notin {Missing, Empty}
  /\ Len(content) = 1 /\ content[1] \in Int

ShownV1(h, dir) ==
  LET quota == Content(h, Append(dir, "cpu.cfs_quota_us"))
      period == Content(h, Append(dir, "cpu.cfs_period_us"))
  IN  IF h.quota = Nil
      THEN /\ IsNumber(quota) => quota[1] <= 0
           /\ h.sane => IsNumber(quota)
      ELSE /\ IsNumber(quota) => quota[1] = h.quota[1]
           /\ IsNumber(period) => period[1] = h.quota[2]
           /\ h.sane => IsNumber(quota) /\ IsNumber(period)

IsMax(content) ==
  /\ content \notin {Missing, Empty}
  /\ Len(content) \in {1, 2} /\ content[1] = MaxWord

IsDamaged(content) ==
  content \in {Missing, Empty} \/ Len(content) \notin {1, 2} \/ NoNumber(content)

ShownV2(h, dir) ==
  LET content == Content(h, dir \o <<"cpu.max">>)
  IN  IF h.quota = Nil
      THEN IsDamaged(content) /\ (h.sane => IsMax(content) \/ content = Missing)
      ELSE \/ content = h.quota
           \/ content = <<h.quota[1]>> /\ h.quota[2] = DefaultPeriod
           \/ IsDamaged(content) /\ ~h.sane

\* What the kernel says of the group of the process, where it says anything:
\* its path in the lines for cpu and for version 2, its files below the
\* mounts.  Version 2 is in charge where it is mounted at the usual place.
Truthful(h) ==
  /\ h.quota = Nil \/ h.quota \in (Nat \ {0}) \X (Nat \ {0})
  /\ h.sane => Parses(h.mounts) /\ Parses(h.groups)
  /\ Parses(h.mounts) /\ Parses(h.groups) =>
       LET v1 == {i \in DOMAIN h.mounts : h.mounts[i].fs = "cgroup"}
           cpu == {i \in v1 : "cpu" \in h.mounts[i].options}
           v2 == {i \in DOMAIN h.mounts :
                    h.mounts[i].fs = "cgroup2" /\ h.mounts[i].point = V2Point}
           own == {j \in DOMAIN h.groups : h.groups[j].id = 0}
       IN  /\ \A i \in cpu, j \in Listing(h, "cpu") :
                LET dir == Translate(h.mounts[i], h.groups[j].path)
                IN  dir # Error => ShownV1(h, dir)
           /\ v2 # {} => \A j \in own : ShownV2(h, V2Point \o h.groups[j].path)
           /\ h.sane /\ (v2 = {} \/ own = {}) =>
                /\ \A i \in v1, j \in DOMAIN h.groups :
                     h.mounts[i].options \cap h.groups[j].controllers # {} =>
                       IsPrefix(h.mounts[i].root, h.groups[j].path)
                /\ h.quota # Nil => cpu # {} /\ "cpu" \in Known(h)

ASSUME ProcsAssumption ==
  /\ \A h \in Hosts : IsHost(h) /\ Truthful(h)
  /\ \A list \in OptionLists : IsOptionList(list)
  /\ Initial \in Nat \ {0}
  /\ DefaultLimit \in Nat \ {0} /\ DefaultIdle \in Nat \ {0}
  /\ {Nil, Error, Undefined} \cap Int = {} /\ Error # Missing
  /\ \A x \in {Missing, Empty, Error, Undefined, Nil} :
       x \notin Seq(STRING) /\ x \notin Seq(Words)
  /\ \A x \in {MaxWord, Junk} : x \notin Int

VARIABLES
  host,
  gomaxprocs,
  pc,          \* pc[e]: where New or Close of e is
  opts,        \* opts[e]: what the options of e came to; as a history,
               \* opts[e].own: the fields whose last option was a user's own
  found,       \* found[e]: maxProcs
  prev,        \* prev[e]: what undo of e goes back to, Nil if to nothing
  \* History.
  stack,       \* the executors that have read prev and not undone it; only
               \* kept as long as
  nested       \* every step has been one of the last of them

vars == <<host, gomaxprocs, pc, opts, found, prev, stack, nested>>
-----------------------------------------------------------------------------
Modes == {"share", "alone"}
Rounds == {"floor", "ceiling"}

Defaults ==
  [mode |-> "share", min |-> 0, procs |-> Nil, round |-> "floor",
   limit |-> DefaultLimit, idle |-> DefaultIdle, timeout |-> 0, own |-> {}]

\* (AtLeastZero lets a zero through.)
AtLeastZero(n, default) == IF n < 0 THEN default ELSE n
AtLeastOne(n, default) == IF n < 1 THEN default ELSE n

\* One option: what it sets, unless it is refused.  An Option the user wrote
\* has the exported Options in hand: it may fail, or set any field to
\* anything, which nobody looks at but for Mode (Armed).
Refused(option) ==
  \/ option.name = "fails"
  \/ /\ ~option.own
     /\ \/ option.name \in {"procs", "round"} /\ option.value = Nil
        \/ option.name = "mode" /\ option.value \notin Modes

Setting(o, option) ==
  LET v == option.value
  IN  IF option.own THEN v
      ELSE IF option.name = "min" THEN IF v > 2 THEN v ELSE o.min
      ELSE IF option.name = "limit" THEN AtLeastOne(v, DefaultLimit)
      ELSE IF option.name = "idle" THEN AtLeastOne(v, DefaultIdle)
      ELSE IF option.name = "timeout" THEN AtLeastOne(v, 0)
      ELSE v

Apply(o, option) ==
  IF o = Error \/ Refused(option) THEN Error
  ELSE [o EXCEPT ![option.name] = Setting(o, option),
                 !.own = IF option.own THEN @ \cup {option.name}
                                       ELSE @ \ {option.name}]

\* One after the other.
Applied(list) ==
  LET o[k \in 0..Len(list)] ==
        IF k = 0 THEN Defaults ELSE Apply(o[k - 1], list[k])
  IN  o

Options(list) == Applied(list)[Len(list)]

\* DefaultRoundFunc, also for Nil, or a function of the user's.
Round(quota, round) ==
  IF round = "ceiling" THEN -((-quota[1]) \div quota[2])
                       ELSE quota[1] \div quota[2]

\* Enable's minimum, and the greater of it and what a quota comes to.
Minimum(o) == IF o.min < 0 THEN 0 ELSE o.min

Rounded(quota, o) ==
  LET n == Round(quota, o.round)
  IN  IF Minimum(o) > 0 /\ n < Minimum(o) THEN Minimum(o) ELSE n

\* QuotaToGOMAXPROCS
FromQuota(h, o) ==
  LET quota == Quota(h)
  IN  IF quota \in {Error, Undefined} THEN quota ELSE Rounded(quota, o)

\* procs() as far as Enable gets to it.
Found(h, o) ==
  IF h.env THEN Undefined ELSE IF o.procs # Nil THEN o.procs ELSE FromQuota(h, o)
-----------------------------------------------------------------------------
Init ==
  /\ host \in Hosts
  /\ gomaxprocs = Initial
  /\ pc = [e \in Executors |-> "none"]
  /\ opts = [e \in Executors |-> Defaults]
  /\ found = [e \in Executors |-> Undefined]
  /\ prev = [e \in Executors |-> Nil]
  /\ stack = <<>>
  /\ nested = TRUE

\* What becomes of an executor whose undo is settled: an invalid mode, which
\* only a user's own option brings this far, is undone at once.
Armed(o) == IF o.mode \in Modes THEN "open" ELSE "undo"

\* New up to the call of procs and its result.
New(e) ==
  /\ pc[e] = "none"
  /\ \E list \in OptionLists :
       LET o == Options(list)
           n == Found(host, o)
       IN  \/ /\ o = Error
              /\ pc' = [pc EXCEPT ![e] = "invalid"]
              /\ UNCHANGED <<opts, found>>
           \/ /\ o # Error
              /\ opts' = [opts EXCEPT ![e] = o]
              /\ found' = [found EXCEPT ![e] = n]
              /\ pc' = [pc EXCEPT ![e] = CASE n = Error     -> "refused"
                                           [] n = Undefined -> Armed(o)
                                           [] OTHER         -> "read"]
  /\ UNCHANGED <<host, gomaxprocs, prev, stack, nested>>

\* prev := runtime.GOMAXPROCS(0)
ReadPrev(e) ==
  /\ pc[e] = "read"
  /\ pc' = [pc EXCEPT ![e] = "set"]
  /\ prev' = [prev EXCEPT ![e] = gomaxprocs]
  /\ stack' = Append(stack, e)
  /\ UNCHANGED <<host, gomaxprocs, opts, found, nested>>

\* runtime.GOMAXPROCS(n) only reads when n < 1.
Value(n, current) == IF n < 1 THEN current ELSE n

Top(e) == stack # <<>> /\ stack[Len(stack)] = e

\* runtime.GOMAXPROCS(maxProcs)
SetProcs(e) ==
  /\ pc[e] = "set"
  /\ pc' = [pc EXCEPT ![e] = Armed(opts[e])]
  /\ gomaxprocs' = Value(found[e], gomaxprocs)
  /\ nested' = (nested /\ Top(e))
  /\ UNCHANGED <<host, opts, found, prev, stack>>

\* The Close that wins, up to its deferred undo.  The others return.
Close(e) ==
  /\ pc[e] = "open"
  /\ pc' = [pc EXCEPT ![e] = "undo"]
  /\ UNCHANGED <<host, gomaxprocs, opts, found, prev, stack, nested>>

\* undo, also when Close gives up on its timeout.  (UndoAnew reads the value
\* to go back to when it is called.)
UndoAnew(e) ==
  /\ pc[e] = "undo"
  /\ pc' = [pc EXCEPT ![e] = "closed"]
  /\ stack' = IF Top(e) THEN SubSeq(stack, 1, Len(stack) - 1) ELSE stack
  /\ nested' = (nested /\ (prev[e] # Nil => Top(e)))
  /\ UNCHANGED <<host, gomaxprocs, opts, found, prev>>

Undo(e) ==
  /\ pc[e] = "undo"
  /\ pc' = [pc EXCEPT ![e] = "closed"]
  /\ gomaxprocs' = IF prev[e] = Nil THEN gomaxprocs ELSE Value(prev[e], gomaxprocs)
  /\ stack' = IF Top(e) THEN SubSeq(stack, 1, Len(stack) - 1) ELSE stack
  /\ nested' = (nested /\ (prev[e] # Nil => Top(e)))
  /\ UNCHANGED <<host, opts, found, prev>>

Step(e) == New(e) \/ ReadPrev(e) \/ SetProcs(e) \/ Close(e) \/ Undo(e)

\* Every executor has been made and closed, or refused.
Terminated == \A e \in Executors : pc[e] \in {"invalid", "refused", "closed"}

Next == (\E e \in Executors : Step(e)) \/ (Terminated /\ UNCHANGED vars)

Spec == Init /\ [][Next]_vars
-----------------------------------------------------------------------------
(* Properties.                                                             *)

\* Also: an executor that New returns has a valid mode, and every number of
\* its options whose last option was one of the package (WithMaxGoroutines,
\* WithMaxGoroutinesIdleDuration, WithCloseTimeout), or which had none, is in
\* order: a positive limit and idle duration, a timeout of zero or more, as
\* Share, Alone and Idle assume.  What a user's own Option sets is not looked
\* at (executors.go:80): those models say nothing of it.  GOMAXPROCS is never
\* below one.
TypeOK ==
  /\ gomaxprocs \in Nat \ {0}
  /\ pc \in [Executors -> {"none", "invalid", "refused", "read", "set",
                        "open", "undo", "closed"}]
  /\ stack \in Seq(Executors) /\ nested \in BOOLEAN
  /\ \A e \in Executors :
       /\ prev[e] \in Nat \cup {Nil}
       /\ \A f \in {"limit", "idle"} \ opts[e].own : opts[e][f] \in Nat \ {0}
       /\ "timeout" \notin opts[e].own => opts[e].timeout \in Nat
       /\ pc[e] = "open" => opts[e].mode \in Modes

\* As long as executors are made and closed one inside the other, nothing is
\* left of them when they are gone, whether New returned them or not: the
\* process runs with the GOMAXPROCS it had before.
NestedRestores == nested /\ stack = <<>> => gomaxprocs = Initial

\* What an executor that asks for nothing special makes of the quota that the
\* host really gives its group, h.quota (Nil without one).
Promised(e) == Rounded(host.quota, opts[e])

\* The quota found is the one of the process's own group: on a host of
\* whatever version whose files are in order (h.sane) it is found if there
\* is one, on any other an executor may be refused, or left without, but it
\* never takes another value.
QuotaFound ==
  \A e \in Executors :
    pc[e] \notin {"none", "invalid"} /\ opts[e].procs = Nil /\ ~host.env =>
      \/ host.quota # Nil /\ found[e] = Promised(e)
      \/ found[e] = Undefined /\ (host.sane => host.quota = Nil)
      \/ found[e] = Error /\ ~host.sane
=============================================================================
