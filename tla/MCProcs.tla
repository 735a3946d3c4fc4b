------------------------------- MODULE MCProcs -------------------------------
(***************************************************************************)
(* Procs on hosts as the kernel presents them, in order and damaged.       *)
(***************************************************************************)
EXTENDS Procs, TLC

V1Point(c) == V2Point \o <<c>>
OwnGroup == <<"docker", "x">>

\* The hierarchies a host mounts; the root of the cpu mount; the quota of
\* the group of the process; and what is wrong with the files.
Kinds == {"v1", "v2", "hybrid", "none"}
Roots == {<<>>, OwnGroup, <<"docker", "y">>}
Quotas == {Nil, <<50000, 100000>>, <<250000, 100000>>, <<400000, DefaultPeriod>>}
Damages == {"none", "no mountinfo", "bad mount", "bad group", "foreign mount",
            "no file", "empty", "junk", "three fields"}

Mount(fs, root, point, options) ==
  [fs |-> fs, root |-> root, point |-> point, options |-> options]
Line(id, controllers, path) ==
  [id |-> id, controllers |-> controllers, path |-> path]

V1Mounts(root) ==
  <<Mount("cgroup", <<>>, V1Point("memory"), {"rw", "memory"}),
    Mount("cgroup", root, V1Point("cpu"), {"rw", "cpu", "cpuacct"})>>
Mounts(kind, root) ==
  CASE kind = "v1"     -> V1Mounts(root)
    [] kind = "hybrid" -> <<Mount("cgroup2", <<>>, V1Point("unified"), {"rw"})>>
                            \o V1Mounts(root)
    [] kind = "v2"     -> <<Mount("tmpfs", <<>>, <<"tmp">>, {"rw"}),
                            Mount("cgroup2", root, V2Point, {"rw"})>>
    [] kind = "none"   -> <<Mount("tmpfs", <<>>, <<"tmp">>, {"rw"})>>

V1Groups == <<Line(3, {"memory"}, <<>>), Line(2, {"cpu", "cpuacct"}, OwnGroup)>>
Groups(kind) ==
  CASE kind = "v1"     -> V1Groups
    [] kind = "hybrid" -> V1Groups \o <<Line(0, {""}, OwnGroup)>>
    [] kind = "v2"     -> <<Line(0, {""}, OwnGroup)>>
    [] kind = "none"   -> <<>>

\* The files below a mount show the part of the hierarchy below its root.
Below(root) == IF IsPrefix(root, OwnGroup)
               THEN SubSeq(OwnGroup, Len(root) + 1, Len(OwnGroup)) ELSE OwnGroup
MaxContent(quota) ==
  CASE quota = Nil              -> <<MaxWord, DefaultPeriod>>
    [] quota[2] = DefaultPeriod /\ quota[1] = 400000 -> <<quota[1]>>
    [] OTHER                    -> quota
Files(kind, root, quota) ==
  LET dir(point) == point \o Below(root)
  IN  CASE kind = "none" -> <<>>
        [] kind = "v2" -> Append(dir(V2Point), "cpu.max") :> MaxContent(quota)
        [] OTHER ->
             Append(dir(V1Point("cpu")), "cpu.cfs_quota_us") :>
               <<IF quota = Nil THEN -1 ELSE quota[1]>>
             @@ Append(dir(V1Point("cpu")), "cpu.cfs_period_us") :>
               <<IF quota = Nil THEN 100000 ELSE quota[2]>>

Damaged(content, damage) ==
  CASE damage = "empty"        -> Empty
    [] damage = "junk"         -> <<Junk>>
    [] damage = "three fields" -> content \o <<1, 1>>
    [] OTHER                   -> content

Host(kind, root, quota, damage) ==
  LET mounts == Mounts(kind, root)
      groups == Groups(kind)
      files == Files(kind, root, quota)
  IN  [mounts |-> CASE damage = "no mountinfo"  -> Missing
                    [] damage = "bad mount"     -> Append(mounts, Bad)
                    [] damage = "foreign mount" ->
                         Append(mounts, Mount("cgroup", <<"docker", "y">>,
                                              <<"mnt">>, {"rw", "cpu"}))
                    [] OTHER                    -> mounts,
       groups |-> IF damage = "bad group" THEN Append(groups, Bad) ELSE groups,
       files |-> IF damage = "no file" THEN <<>>
                 ELSE [p \in DOMAIN files |-> Damaged(files[p], damage)],
       env |-> FALSE,
       quota |-> IF kind = "none" THEN Nil ELSE quota,
       sane |-> /\ damage = "none" \/ (kind = "v2" /\ damage = "foreign mount")
                /\ IsPrefix(root, OwnGroup)
                /\ kind = "v2" => root = <<>>]

AllHosts ==
  {Host(kind, root, quota, damage) :
     kind \in Kinds, root \in Roots, quota \in Quotas, damage \in Damages}
  \cup {[Host("v2", <<>>, <<250000, 100000>>, "none") EXCEPT !.env = TRUE]}

Opt(name, value) == [name |-> name, value |-> value, own |-> FALSE]
Own(name, value) == [name |-> name, value |-> value, own |-> TRUE]
Lists ==
  {<<>>,
   <<Opt("min", 3), Own("limit", -1), Opt("limit", 0), Opt("timeout", -1)>>,
   <<Opt("mode", "alone"), Opt("min", 2), Opt("round", "ceiling")>>,
   <<Opt("idle", 0), Own("limit", -1), Own("mode", "other")>>,
   <<Own("min", -3), Own("round", Nil), Own("idle", 0), Own("timeout", -1)>>,
   <<Opt("procs", Nil), Opt("limit", 5)>>,
   <<Own("procs", Nil), Own("fails", Nil)>>,
   <<Opt("procs", Error)>>,
   <<Own("procs", Undefined), Own("limit", 0)>>,
   <<Opt("limit", 5), Opt("procs", 6)>>}
=============================================================================
