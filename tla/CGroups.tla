------------------------------- MODULE CGroups -------------------------------
(***************************************************************************)
(* What package cgroups reads out of a host: the CPU quota of the process, *)
(* as a pair <<quota, period>>, Undefined if it has none, or Error.        *)
(*                                                                         *)
(* A host h is what the files say once their lines are split into fields:  *)
(*   h.mounts  /proc/self/mountinfo, a sequence of Bad and of records with *)
(*             the fields fs, root, point and options,                     *)
(*   h.groups  /proc/self/cgroup, a sequence of Bad and of records with    *)
(*             the fields id, controllers and path,                        *)
(*   h.files   the parameter files by path, each the fields of its first   *)
(*             line, or Empty without a line.                              *)
(* A file that cannot be opened is Missing, a path is the sequence of its  *)
(* names, a field is a number, the word max or Junk.                       *)
(***************************************************************************)
EXTENDS Integers, Sequences, SequencesExt

CONSTANTS
  Missing, Empty,    \* a file that cannot be opened, that has no line
  Bad,               \* a line that is not well-formed
  MaxWord, Junk,     \* fields that are no numbers: "max", and anything else
  Error, Undefined   \* results other than a quota

V2Point == <<"sys", "fs", "cgroup">>
DefaultPeriod == 100000

\* The lines that NewMountPointFromLine and NewSubsystemFromLine accept.
WellFormed(lines) == Bad \notin ToSet(lines)
Parses(lines) == lines # Missing /\ WellFormed(lines)

\* strconv.Atoi
Number(field) == IF field \in {MaxWord, Junk} THEN Error ELSE field

Content(h, path) == IF path \in DOMAIN h.files THEN h.files[path] ELSE Missing

\* map[string]*Subsystem: the last line that names a controller counts.
Listing(h, c) == {i \in DOMAIN h.groups : c \in h.groups[i].controllers}
Known(h) == UNION {h.groups[i].controllers : i \in DOMAIN h.groups}
Group(h, c) ==
  h.groups[CHOOSE i \in Listing(h, c) : \A j \in Listing(h, c) : j <= i].path

\* A path of the hierarchy as seen below the mount point.
Translate(m, path) ==
  IF IsPrefix(m.root, path)
  THEN m.point \o SubSeq(path, Len(m.root) + 1, Len(path))
  ELSE Error
-----------------------------------------------------------------------------
(* Version 1.                                                              *)

\* The mounts that newMountPoint looks at, each with one of its controllers.
Places(h) ==
  {place \in (DOMAIN h.mounts) \X Known(h) :
     /\ h.mounts[place[1]].fs = "cgroup"
     /\ place[2] \in h.mounts[place[1]].options}

PathAt(h, place) == Translate(h.mounts[place[1]], Group(h, place[2]))

\* readInt: the whole first line is the number.
ReadInt(content) ==
  IF content \in {Missing, Empty} \/ Len(content) # 1
  THEN Error ELSE Number(content[1])

\* Both parameters have to be positive.
QuotaOf(quota, period) ==
  IF quota = Error THEN Error
  ELSE IF quota <= 0 THEN Undefined
  ELSE IF period = Error THEN Error
  ELSE IF period <= 0 THEN Undefined
  ELSE <<quota, period>>
CGroupQuota(h, dir) ==
  QuotaOf(ReadInt(Content(h, Append(dir, "cpu.cfs_quota_us"))),
          ReadInt(Content(h, Append(dir, "cpu.cfs_period_us"))))

QuotaV1(h) ==
  LET cpu == {place \in Places(h) : place[2] = "cpu"}
  IN  IF ~Parses(h.groups) \/ ~Parses(h.mounts) THEN Error
      ELSE IF \E place \in Places(h) : PathAt(h, place) = Error THEN Error
      ELSE IF cpu = {} THEN Undefined
      ELSE CGroupQuota(h, PathAt(h, CHOOSE place \in cpu :
                                  \A other \in cpu : other[1] <= place[1]))
-----------------------------------------------------------------------------
(* Version 2.                                                              *)

\* (IsV2Anywhere takes the unified part of a hybrid host for version 2.)
IsV2Anywhere(m) == m.fs = "cgroup2"
IsV2(m) == m.fs = "cgroup2" /\ m.point = V2Point

NoNumber(content) == \E i \in DOMAIN content : Number(content[i]) = Error

\* cpu.max: "max" or a quota, and a period that may be left out.  Only what
\* can be opened can fail.
ReadMax(content) ==
  IF content = Missing THEN Undefined
  ELSE IF content = Empty \/ Len(content) \notin {1, 2} THEN Error
  ELSE IF content[1] = MaxWord THEN Undefined
  ELSE IF NoNumber(content) THEN Error
  ELSE IF Len(content) = 1 THEN <<content[1], DefaultPeriod>>
  ELSE IF content[2] = 0 THEN Error ELSE content

\* newCGroups2From: the path of the group, Missing for ErrNotV2.
GroupV2(h) ==
  LET own == {i \in DOMAIN h.groups : h.groups[i].id = 0}
  IN  IF ~Parses(h.mounts) THEN Error
      ELSE IF ~\E i \in DOMAIN h.mounts : IsV2(h.mounts[i]) THEN Missing
      ELSE IF ~Parses(h.groups) THEN Error
      ELSE IF own = {} THEN Missing
      ELSE h.groups[CHOOSE i \in own : TRUE].path

\* newQuery, and CPUQuota of what it returns.
Quota(h) ==
  LET group == GroupV2(h)
  IN  IF group = Error THEN Error
      ELSE IF group = Missing THEN QuotaV1(h)
      ELSE ReadMax(Content(h, V2Point \o group \o <<"cpu.max">>))
-----------------------------------------------------------------------------
(* What a host may say: any lines, any fields, except that the kernel      *)
(* shows no period below zero.                                             *)

Words == {MaxWord, Junk} \cup Int
Paths == Seq(STRING)

IsList(lines) == Len(lines) \in Nat /\ DOMAIN lines = 1..Len(lines)
IsContent(content) ==
  \/ content \in {Missing, Empty}
  \/ /\ content \in Seq(Words)
     /\ Len(content) = 2 /\ content[2] \in Int => content[2] >= 0

IsHost(h) ==
  /\ Parses(h.mounts) =>
       /\ IsList(h.mounts)
       /\ \A i \in DOMAIN h.mounts : {h.mounts[i].root, h.mounts[i].point} \subseteq Paths
  /\ Parses(h.groups) =>
       /\ IsList(h.groups)
       /\ \A i \in DOMAIN h.groups : h.groups[i].path \in Paths
  /\ \A path \in DOMAIN h.files : IsContent(h.files[path])
=============================================================================
