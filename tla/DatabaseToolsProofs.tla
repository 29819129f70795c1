------------------------- MODULE DatabaseToolsProofs -------------------------
(* The index tool beside the migrations: for any number of operators, commands *)
(* and rows, whatever is migrated, built and interrupted meanwhile.            *)
EXTENDS HnswIndex, FiniteSetTheorems, WellFoundedInduction, TLAPS

Probing == {"sample", "exact", "approximate", "report"}

\* A command knows what it was asked.
Sound(c) ==
  /\ DOMAIN c = {"command", "pc", "left", "distance", "scope", "exact", "reached",
                 "approximate", "perfect"}
  /\ c.pc = "inspect" => c.command \in {"status", "build", "benchmark"}
  /\ c.pc \in Probing => c.command = "benchmark"
  /\ c.pc \in {"create", "creating", "verify"} => c.command = "build"

ToolInv ==
  /\ DOMAIN cli = Operators
  /\ cli = [o \in Operators |-> cli[o]]
  /\ \A o \in Operators : Sound(cli[o])

LEMMA AtIsSound ==
  ASSUME NEW command, NEW pc, pc \in Ended \union {"inspect"},
         pc = "inspect" => command \in {"status", "build", "benchmark"}
  PROVE  Sound(At(command, pc))
  BY DEF At, Sound, Ended, Probing

\* A step of one command.
LEMMA CommandSteps ==
  ASSUME ToolInv, NEW o \in Operators, NEW c, Sound(c), cli' = [cli EXCEPT ![o] = c]
  PROVE  ToolInv' /\ cli'[o] = c /\ \A p \in Operators : p # o => cli'[p] = cli[p]
  BY DEF ToolInv

LEMMA GoToKeeps ==
  ASSUME ToolInv, NEW o \in Operators, NEW pc, GoTo(o, pc),
         pc # "inspect", pc \in Probing => cli[o].command = "benchmark",
         pc \in {"create", "creating", "verify"} => cli[o].command = "build"
  PROVE  ToolInv' /\ cli'[o].pc = pc /\ \A p \in Operators : p # o => cli'[p] = cli[p]
<1>1. CASE pc \in Ended
  <2>1. cli' = [cli EXCEPT ![o] = At("none", pc)]
    BY <1>1 DEF GoTo
  <2>2. Sound(At("none", pc)) /\ At("none", pc).pc = pc
    BY <1>1, AtIsSound DEF At
  <2> QED
    BY <2>1, <2>2, CommandSteps
<1>2. CASE pc \notin Ended
  <2> DEFINE c == [cli[o] EXCEPT !.pc = pc]
  <2>1. cli' = [cli EXCEPT ![o] = c]
    BY <1>2 DEF GoTo
  <2>2. Sound(c) /\ c.pc = pc
    BY DEF ToolInv, Sound
  <2> HIDE DEF c
  <2> QED
    BY <2>1, <2>2, CommandSteps
<1> QED
  BY <1>1, <1>2

\* The tool sees a missing index, an unusable one, or a valid one.
LEMMA IndexIsSeen ==
  IndexState = "none" \/ IndexState = "error" \/ (IndexState = "valid" /\ index = "valid")
<1>1. CASE ~Present
  <2>1. IndexState = "none"
    BY <1>1, Zenon DEF IndexState
  <2> QED
    BY <2>1, Zenon
<1>2. CASE Present /\ index = "valid"
  <2>1. IndexState = "valid"
    BY <1>2, Zenon DEF IndexState
  <2> QED
    BY <1>2, <2>1, Zenon
<1>3. CASE Present /\ index # "valid"
  <2>1. IndexState = "error"
    BY <1>3, Zenon DEF IndexState
  <2> QED
    BY <2>1, Zenon
<1> QED
  BY <1>1, <1>2, <1>3, Zenon

\* A command for a build that ends well has just seen a valid index.
Reported == 
  \A o \in Operators :
    cli[o].command = "build" /\ Running(o) /\ cli'[o].pc = "ok" => index' = "valid"

LEMMA CommandKeeps ==
  ASSUME ToolInv, NEW o \in Operators,
         \/ Start(o) \/ Inspect(o) \/ Create(o) \/ BuildEnds(o) \/ Verify(o) \/ Lost(o)
         \/ Sample(o) \/ ExactProbe(o) \/ ApproximateProbe(o) \/ Report(o)
  PROVE  ToolInv' /\ Reported
<1> DEFINE Others == \A p \in Operators : p # o => cli'[p] = cli[p]
<1>1. Sound(cli[o])
  BY DEF ToolInv
<1>2. ASSUME Others, cli[o].command = "build" /\ Running(o) /\ cli'[o].pc = "ok" => index' = "valid"
      PROVE  Reported
  BY <1>2 DEF Reported, Running, Ended
<1>3. CASE Start(o)
  <2>1. PICK c : Sound(c) /\ cli' = [cli EXCEPT ![o] = c]
    BY <1>3, AtIsSound DEF Start, Ended
  <2>2. ~Running(o)
    BY <1>3 DEF Start
  <2> QED
    BY <1>2, <2>1, <2>2, CommandSteps
<1>4. CASE Inspect(o)
  <2> DEFINE pc == IF IndexState = "error" THEN "error" ELSE
                   CASE cli[o].command = "status"    -> "ok"
                     [] cli[o].command = "build"     -> IF IndexState = "none" THEN "create" ELSE "ok"
                     [] cli[o].command = "benchmark" -> IF IndexState = "none" THEN "error" ELSE "sample"
  <2>1. GoTo(o, pc) /\ index' = index
    BY <1>4 DEF Inspect
  <2>2. cli[o].command \in {"status", "build", "benchmark"} /\ cli[o].pc = "inspect"
    BY <1>1, <1>4 DEF Sound, Inspect
  <2>3. \/ pc = "error"
        \/ pc = "create" /\ cli[o].command = "build"
        \/ pc = "sample" /\ cli[o].command = "benchmark"
        \/ pc = "ok" /\ (cli[o].command = "build" => index = "valid")
    <3>2. CASE IndexState = "error"
      BY <3>2
    <3>3. CASE IndexState # "error" /\ cli[o].command = "status"
      <4>1. pc = "ok" /\ cli[o].command # "build"
        BY <3>3
      <4> QED
        BY <4>1
    <3>4. CASE IndexState # "error" /\ cli[o].command = "build"
      BY IndexIsSeen, <3>4
    <3>5. CASE IndexState # "error" /\ cli[o].command = "benchmark"
      BY <3>5
    <3> QED
      BY <2>2, <3>2, <3>3, <3>4, <3>5
  <2> HIDE DEF pc
  <2>4. ToolInv' /\ cli'[o].pc = pc /\ Others
    BY <2>1, <2>3, GoToKeeps DEF Probing
  <2> QED
    BY <1>2, <2>1, <2>3, <2>4
<1>5. CASE Create(o)
  <2>1. cli[o].command = "build"
    BY <1>1, <1>5 DEF Sound, Create
  <2>2. \E pc \in {"error", "creating", "verify"} : GoTo(o, pc)
    BY <1>5 DEF Create
  <2> QED
    BY <1>2, <2>1, <2>2, GoToKeeps DEF Probing
<1>6. CASE BuildEnds(o)
  <2>1. cli[o].command = "build"
    BY <1>1, <1>6 DEF Sound, BuildEnds
  <2>2. \E pc \in {"error", "verify"} : GoTo(o, pc)
    BY <1>6 DEF BuildEnds
  <2> QED
    BY <1>2, <2>1, <2>2, GoToKeeps DEF Probing
<1>7. CASE Verify(o)
  <2>1. GoTo(o, IF IndexState = "valid" THEN "ok" ELSE "error") /\ index' = index
    BY <1>7 DEF Verify
  <2>3. CASE IndexState = "valid"
    BY <1>2, IndexIsSeen, <2>1, <2>3, GoToKeeps DEF Probing
  <2>4. CASE IndexState # "valid"
    <3>1. GoTo(o, "error")
      BY <2>1, <2>4
    <3> QED
      BY <1>2, <3>1, GoToKeeps DEF Probing
  <2> QED
    BY <2>3, <2>4
<1>8. CASE Lost(o)
  BY <1>2, <1>8, GoToKeeps DEF Lost, Probing
<1>9. CASE Sample(o)
  <2>1. cli[o].command = "benchmark"
    BY <1>1, <1>9 DEF Sound, Sample, Probing
  <2>2. CASE GoTo(o, "error")
    BY <1>2, <2>1, <2>2, GoToKeeps DEF Probing
  <2>3. CASE \E vectors : cli' = [cli EXCEPT ![o].pc = "exact", ![o].left = vectors]
    <3>1. PICK vectors : cli' = [cli EXCEPT ![o].pc = "exact", ![o].left = vectors]
      BY <2>3
    <3> DEFINE c == [cli[o] EXCEPT !.pc = "exact", !.left = vectors]
    <3>2. cli' = [cli EXCEPT ![o] = c]
      BY <3>1 DEF ToolInv
    <3>3. Sound(c) /\ c.pc = "exact"
      BY <1>1, <2>1 DEF Sound, Probing
    <3> HIDE DEF c
    <3> QED
      BY <1>2, <3>2, <3>3, CommandSteps
  <2> QED
    BY <1>9, <2>2, <2>3 DEF Sample
<1>10. CASE ExactProbe(o)
  <2>1. cli[o].command = "benchmark"
    BY <1>1, <1>10 DEF Sound, ExactProbe, Probing
  <2>2. CASE GoTo(o, "error")
    BY <1>2, <2>1, <2>2, GoToKeeps DEF Probing
  <2>3. CASE ~GoTo(o, "error")
    <3>1. PICK distance, result :
            cli' = [cli EXCEPT ![o].pc = "approximate", ![o].distance = distance,
                               ![o].scope = Served(db), ![o].exact = result,
                               ![o].reached = {}, ![o].approximate = {}]
      BY <1>10, <2>3 DEF ExactProbe
    <3> DEFINE c == [cli[o] EXCEPT !.pc = "approximate", !.distance = distance,
                                   !.scope = Served(db), !.exact = result,
                                   !.reached = {}, !.approximate = {}]
    <3>2. cli' = [cli EXCEPT ![o] = c]
      BY <3>1 DEF ToolInv
    <3>3. Sound(c) /\ c.pc = "approximate"
      BY <1>1, <2>1 DEF Sound, Probing
    <3> HIDE DEF c
    <3> QED
      BY <1>2, <3>2, <3>3, CommandSteps
  <2> QED
    BY <2>2, <2>3
<1>11. CASE ApproximateProbe(o)
  <2>1. cli[o].command = "benchmark"
    BY <1>1, <1>11 DEF Sound, ApproximateProbe, Probing
  <2>2. CASE GoTo(o, "error")
    BY <1>2, <2>1, <2>2, GoToKeeps DEF Probing
  <2>3. CASE ~GoTo(o, "error")
    <3>1. PICK reached, result :
            cli' = [cli EXCEPT
              ![o].pc = IF cli[o].left = 1 THEN "report" ELSE "exact",
              ![o].left = @ - 1, ![o].reached = reached, ![o].approximate = result,
              ![o].perfect = @ /\ cli[o].exact \subseteq result]
      BY <1>11, <2>3 DEF ApproximateProbe
    <3> DEFINE c == [cli[o] EXCEPT
                       !.pc = IF cli[o].left = 1 THEN "report" ELSE "exact",
                       !.left = @ - 1, !.reached = reached, !.approximate = result,
                       !.perfect = @ /\ cli[o].exact \subseteq result]
    <3>2. cli' = [cli EXCEPT ![o] = c]
      BY <3>1 DEF ToolInv
    <3>3. Sound(c) /\ c.pc \in {"report", "exact"}
      BY <1>1, <2>1 DEF Sound, Probing
    <3> HIDE DEF c
    <3> QED
      BY <1>2, <3>2, <3>3, CommandSteps
  <2> QED
    BY <2>2, <2>3
<1>12. CASE Report(o)
  <2>1. cli[o].command = "benchmark"
    BY <1>1, <1>12 DEF Sound, Report, Probing
  <2> QED
    BY <1>2, <1>12, <2>1, GoToKeeps DEF Report, Probing
<1> QED
  BY <1>3, <1>4, <1>5, <1>6, <1>7, <1>8, <1>9, <1>10, <1>11, <1>12

LEMMA ToolKeeps == ToolInv /\ [Next]_vars => ToolInv' /\ Reported
<1> SUFFICES ASSUME ToolInv, [Next]_vars PROVE ToolInv' /\ Reported
  OBVIOUS
<1>1. CASE \E o \in Operators :
        \/ Start(o) \/ Inspect(o) \/ Create(o) \/ BuildEnds(o) \/ Verify(o) \/ Lost(o)
        \/ Sample(o) \/ ExactProbe(o) \/ ApproximateProbe(o) \/ Report(o)
  BY <1>1, CommandKeeps
<1>2. CASE cli' = cli
  BY <1>2 DEF ToolInv, Reported, Running, Ended
<1> QED
  BY <1>1, <1>2 DEF Next, ToolStep, OrphanEnds, MigrationStep, toolVars, vars

LEMMA ToolStarts == ToolInit => ToolInv
  BY AtIsSound DEF ToolInit, ToolInv, Idle, Ended

\* The commands keep to their course, whatever is migrated beside them.
THEOREM ToolInvariance == Spec => []ToolInv
  BY ToolStarts, ToolKeeps, PTL DEF Spec

\* A build reports success only when the index is valid, however often builds
\* were interrupted, raced or undone by a migration.
THEOREM BuildsReportTruly == Spec => BuildReports
<1>1. ToolInv /\ [Next]_vars => [Reported]_vars
  BY ToolKeeps
<1> QED
  BY <1>1, ToolInvariance, PTL DEF Spec, BuildReports, Reported

-----------------------------------------------------------------------------
\* The objects of the schema that rows depend on, and the revision of each.
Chunks     == <<"document_chunks", "table", "document_chunks">>
Embeddings == <<"chunk_embeddings", "table", "chunk_embeddings">>
Versions   == <<"document_chunk_versions", "table", "document_chunk_versions">>
Version    == <<"document_chunks", "column", "chunk_version">>
Status     == <<"document_chunk_versions", "column", "status">>
Active     == <<"documents", "column", "active_chunk_version">>

Keys == {Chunks, Embeddings, Versions, Version, Status, Active}

KeysAt(r) ==
  {k \in Keys : /\ k = Chunks => r >= 3
                /\ k = Embeddings => r >= 4
                /\ k \in {Versions, Version, Active} => r >= 11
                /\ k = Status => r >= 12}

KeysOf(d) == d.schema \cap Keys

ChunkRow   == [id : Nat, doc : Docs, version : Nat, index : Nat]
VersionRow == [doc : Docs, version : Nat, status : {"processing", "ready", "failed"}]

IsDb(d) ==
  /\ d = [schema |-> d.schema, width |-> d.width, chunks |-> d.chunks, embedded |-> d.embedded,
          versions |-> d.versions, active |-> d.active, ok |-> d.ok]
  /\ d.ok \in BOOLEAN

\* The rows are what the schema has room for.
Rows(d) ==
  /\ d.chunks \subseteq ChunkRow /\ IsFiniteSet(d.chunks)
  /\ d.versions \subseteq VersionRow /\ IsFiniteSet(d.versions)
  /\ d.active \in [Docs -> Nat]
  /\ d.embedded \subseteq Ids(d.chunks)
  /\ Chunks \notin d.schema => d.chunks = {}
  /\ Embeddings \notin d.schema => d.embedded = {}
  /\ Version \notin d.schema => \A c \in d.chunks : c.version = 1
  /\ Versions \notin d.schema => d.versions = {}
  /\ Status \notin d.schema => \A v \in d.versions : v.status = "ready"
  /\ Active \notin d.schema => d.active = [x \in Docs |-> 0]

SameRows(d, e) ==
  e.chunks = d.chunks /\ e.embedded = d.embedded /\ e.versions = d.versions /\ e.active = d.active

LEMMA ImageIsFinite ==
  ASSUME NEW S, IsFiniteSet(S), NEW f PROVE IsFiniteSet({f[x] : x \in S})
<1> DEFINE T == {f[x] : x \in S}
           g == [x \in S |-> f[x]]
<1>1. g \in Surjection(S, T)
  BY DEF Surjection
<1> HIDE DEF T, g
<1>2. IsFiniteSet(T)
  BY <1>1, FS_Surjection
<1> QED
  BY <1>2 DEF T

\* What has room is left alone.
LEMMA SettledFields ==
  ASSUME NEW d, IsDb(d)
  PROVE  LET s == Settled(d)
         IN  /\ IsDb(s) /\ s.schema = d.schema /\ s.width = d.width /\ s.ok = d.ok
             /\ s.chunks = IF Chunks \notin d.schema THEN {}
                           ELSE IF Version \in d.schema THEN d.chunks
                           ELSE {[c EXCEPT !.version = 1] : c \in d.chunks}
             /\ s.embedded = IF Embeddings \in d.schema THEN d.embedded \cap Ids(s.chunks) ELSE {}
             /\ s.versions = IF Versions \notin d.schema THEN {}
                             ELSE IF Status \in d.schema THEN d.versions
                             ELSE {[v EXCEPT !.status = "ready"] : v \in d.versions}
             /\ s.active = IF Active \in d.schema THEN d.active ELSE [x \in Docs |-> 0]
<1> DEFINE chunks == IF Chunks \notin d.schema THEN {}
                     ELSE IF Version \in d.schema THEN d.chunks
                     ELSE {[c EXCEPT !.version = 1] : c \in d.chunks}
           embedded == IF Embeddings \in d.schema THEN d.embedded \cap Ids(chunks) ELSE {}
           versions == IF Versions \notin d.schema THEN {}
                       ELSE IF Status \in d.schema THEN d.versions
                       ELSE {[v EXCEPT !.status = "ready"] : v \in d.versions}
           active == IF Active \in d.schema THEN d.active ELSE [x \in Docs |-> 0]
<1>1. Settled(d) = [d EXCEPT !.chunks = chunks, !.embedded = embedded,
                             !.versions = versions, !.active = active]
  BY DEF Settled, HasTable, HasColumn, Chunks, Version, Embeddings, Versions, Status, Active
<1> HIDE DEF chunks, embedded, versions, active
<1>2. Settled(d) = [schema |-> d.schema, width |-> d.width, chunks |-> chunks,
                    embedded |-> embedded, versions |-> versions, active |-> active,
                    ok |-> d.ok]
  BY <1>1 DEF IsDb
<1> DEFINE s == Settled(d)
<1>3. /\ IsDb(s) /\ s.schema = d.schema /\ s.width = d.width /\ s.ok = d.ok
      /\ s.chunks = chunks /\ s.embedded = embedded /\ s.versions = versions /\ s.active = active
  BY <1>2 DEF IsDb
<1> HIDE DEF s
<1> QED
  BY <1>3 DEF chunks, embedded, versions, active, s

\* Rows that have room stay, and settling makes them fit.
LEMMA SettledStays ==
  ASSUME NEW e, IsDb(e), Rows(e) PROVE Settled(e) = e
<1> DEFINE s == Settled(e)
<1>1. /\ IsDb(s) /\ s.schema = e.schema /\ s.width = e.width /\ s.ok = e.ok
      /\ s.chunks = IF Chunks \notin e.schema THEN {}
                    ELSE IF Version \in e.schema THEN e.chunks
                    ELSE {[c EXCEPT !.version = 1] : c \in e.chunks}
      /\ s.embedded = IF Embeddings \in e.schema THEN e.embedded \cap Ids(s.chunks) ELSE {}
      /\ s.versions = IF Versions \notin e.schema THEN {}
                      ELSE IF Status \in e.schema THEN e.versions
                      ELSE {[v EXCEPT !.status = "ready"] : v \in e.versions}
      /\ s.active = IF Active \in e.schema THEN e.active ELSE [x \in Docs |-> 0]
  BY SettledFields
<1> HIDE DEF s
<1>2. s.chunks = e.chunks
  <2>1. CASE Chunks \in e.schema /\ Version \notin e.schema
    <3>1. \A c \in e.chunks : [c EXCEPT !.version = 1] = c
      BY <2>1 DEF Rows, ChunkRow
    <3>2. s.chunks = {[c EXCEPT !.version = 1] : c \in e.chunks}
      BY <1>1, <2>1
    <3> QED
      BY <3>1, <3>2
  <2> QED
    BY <1>1, <2>1 DEF Rows
<1>3. s.versions = e.versions
  <2>1. CASE Versions \in e.schema /\ Status \notin e.schema
    <3>1. \A v \in e.versions : [v EXCEPT !.status = "ready"] = v
      BY <2>1 DEF Rows, VersionRow
    <3>2. s.versions = {[v EXCEPT !.status = "ready"] : v \in e.versions}
      BY <1>1, <2>1
    <3> QED
      BY <3>1, <3>2
  <2> QED
    BY <1>1, <2>1 DEF Rows
<1>4. s.embedded = e.embedded
  BY <1>1, <1>2 DEF Rows
<1>5. s.active = e.active
  BY <1>1 DEF Rows
<1>6. s = e
  BY <1>1, <1>2, <1>3, <1>4, <1>5 DEF IsDb
<1> QED
  BY <1>6 DEF s

LEMMA SettledFits ==
  ASSUME NEW e, IsDb(e), e.chunks \subseteq ChunkRow, e.versions \subseteq VersionRow,
         e.active \in [Docs -> Nat], IsFiniteSet(e.chunks), IsFiniteSet(e.versions)
  PROVE  Rows(Settled(e))
<1> DEFINE s == Settled(e)
<1>1. /\ s.schema = e.schema
      /\ s.chunks = IF Chunks \notin e.schema THEN {}
                    ELSE IF Version \in e.schema THEN e.chunks
                    ELSE {[c EXCEPT !.version = 1] : c \in e.chunks}
      /\ s.embedded = IF Embeddings \in e.schema THEN e.embedded \cap Ids(s.chunks) ELSE {}
      /\ s.versions = IF Versions \notin e.schema THEN {}
                      ELSE IF Status \in e.schema THEN e.versions
                      ELSE {[v EXCEPT !.status = "ready"] : v \in e.versions}
      /\ s.active = IF Active \in e.schema THEN e.active ELSE [x \in Docs |-> 0]
  BY SettledFields
<1> HIDE DEF s
<1>2. /\ \A c \in e.chunks : /\ [c EXCEPT !.version = 1] \in ChunkRow
                              /\ [c EXCEPT !.version = 1].version = 1
      /\ \A v \in e.versions : /\ [v EXCEPT !.status = "ready"] \in VersionRow
                                /\ [v EXCEPT !.status = "ready"].status = "ready"
  BY DEF ChunkRow, VersionRow
<1>3. s.chunks \subseteq ChunkRow /\ (Chunks \notin s.schema => s.chunks = {})
      /\ (Version \notin s.schema => \A c \in s.chunks : c.version = 1)
  <2>1. CASE Chunks \notin e.schema
    <3>1. s.chunks = {}
      BY <1>1, <2>1
    <3> QED
      BY <3>1
  <2>2. CASE Chunks \in e.schema /\ Version \in e.schema
    <3>1. s.chunks = e.chunks
      BY <1>1, <2>2
    <3> QED
      BY <1>1, <2>2, <3>1
  <2>3. CASE Chunks \in e.schema /\ Version \notin e.schema
    <3>1. s.chunks = {[c EXCEPT !.version = 1] : c \in e.chunks}
      BY <1>1, <2>3
    <3> QED
      BY <1>1, <1>2, <2>3, <3>1
  <2> QED
    BY <2>1, <2>2, <2>3
<1>4. s.versions \subseteq VersionRow /\ (Versions \notin s.schema => s.versions = {})
      /\ (Status \notin s.schema => \A v \in s.versions : v.status = "ready")
  <2>1. CASE Versions \notin e.schema
    <3>1. s.versions = {}
      BY <1>1, <2>1
    <3> QED
      BY <3>1
  <2>2. CASE Versions \in e.schema /\ Status \in e.schema
    <3>1. s.versions = e.versions
      BY <1>1, <2>2
    <3> QED
      BY <1>1, <2>2, <3>1
  <2>3. CASE Versions \in e.schema /\ Status \notin e.schema
    <3>1. s.versions = {[v EXCEPT !.status = "ready"] : v \in e.versions}
      BY <1>1, <2>3
    <3> QED
      BY <1>1, <1>2, <2>3, <3>1
  <2> QED
    BY <2>1, <2>2, <2>3
<1>5. s.active \in [Docs -> Nat] /\ (Active \notin s.schema => s.active = [x \in Docs |-> 0])
  BY <1>1
<1>6. s.embedded \subseteq Ids(s.chunks) /\ (Embeddings \notin s.schema => s.embedded = {})
  BY <1>1
<1>7. IsFiniteSet(s.chunks)
  <2> DEFINE first == [c \in e.chunks |-> [c EXCEPT !.version = 1]]
  <2>1. {first[c] : c \in e.chunks} = {[c EXCEPT !.version = 1] : c \in e.chunks}
    OBVIOUS
  <2> HIDE DEF first
  <2>2. IsFiniteSet({first[c] : c \in e.chunks})
    BY ImageIsFinite
  <2> QED
    BY <1>1, <2>1, <2>2, FS_EmptySet
<1>8. IsFiniteSet(s.versions)
  <2> DEFINE ready == [v \in e.versions |-> [v EXCEPT !.status = "ready"]]
  <2>1. {ready[v] : v \in e.versions} = {[v EXCEPT !.status = "ready"] : v \in e.versions}
    OBVIOUS
  <2> HIDE DEF ready
  <2>2. IsFiniteSet({ready[v] : v \in e.versions})
    BY ImageIsFinite
  <2> QED
    BY <1>1, <2>1, <2>2, FS_EmptySet
<1> QED
  BY <1>3, <1>4, <1>5, <1>6, <1>7, <1>8 DEF Rows, s

\* A schema that grows keeps the rows.
LEMMA SettledGrows ==
  ASSUME NEW d, Rows(d), NEW e, IsDb(e), SameRows(d, e), KeysOf(d) \subseteq KeysOf(e)
  PROVE  Settled(e) = e /\ Rows(e)
<1>1. \A k \in Keys : k \in d.schema => k \in e.schema
  BY DEF KeysOf
<1>2. /\ (Chunks \in d.schema => Chunks \in e.schema)
      /\ (Embeddings \in d.schema => Embeddings \in e.schema)
      /\ (Versions \in d.schema => Versions \in e.schema)
      /\ (Version \in d.schema => Version \in e.schema)
      /\ (Status \in d.schema => Status \in e.schema)
      /\ (Active \in d.schema => Active \in e.schema)
  BY <1>1 DEF Keys
<1>3. Rows(e)
  BY <1>2 DEF Rows, SameRows
<1> QED
  BY <1>3, SettledStays

\* An operation that ended well was carried out.
LEMMA ExecutedIs ==
  ASSUME NEW d, IsDb(d), NEW op, Execute(d, op).ok = TRUE
  PROVE  d.ok = TRUE /\ Execute(d, op) = Settled(Effect(d, op))
<1>1. Execute(d, op) = IF d.ok /\ Allowed(d, op) /\ RowsSatisfy(Settled(Effect(d, op)))
                         THEN Settled(Effect(d, op)) ELSE [d EXCEPT !.ok = FALSE]
  BY DEF Execute
<1>2. [d EXCEPT !.ok = FALSE].ok = FALSE
  BY DEF IsDb
<1> QED
  BY <1>1, <1>2 DEF IsDb

LEMMA ExecutedIsDb ==
  ASSUME NEW d, IsDb(d), NEW op PROVE IsDb(Execute(d, op))
<1> DEFINE With(schema, width, chunks, versions, active) ==
             [schema |-> schema, width |-> width, chunks |-> chunks, embedded |-> d.embedded,
              versions |-> versions, active |-> active, ok |-> d.ok]
<1>1. \A schema, width, chunks, versions, active :
        IsDb(With(schema, width, chunks, versions, active))
  BY DEF IsDb
<1>2. \E schema, width, chunks, versions, active :
        Effect(d, op) = With(schema, width, chunks, versions, active)
  <2>1. /\ \A x : [d EXCEPT !.schema = x] = With(x, d.width, d.chunks, d.versions, d.active)
        /\ \A x : [d EXCEPT !.width = x] = With(d.schema, x, d.chunks, d.versions, d.active)
        /\ \A x : [d EXCEPT !.chunks = x] = With(d.schema, d.width, x, d.versions, d.active)
        /\ \A x : [d EXCEPT !.versions = x] = With(d.schema, d.width, d.chunks, x, d.active)
        /\ \A x : [d EXCEPT !.active = x] = With(d.schema, d.width, d.chunks, d.versions, x)
    BY DEF IsDb
  <2>2. \E x : \/ Effect(d, op) = [d EXCEPT !.schema = x]
               \/ Effect(d, op) = [d EXCEPT !.width = x]
               \/ Effect(d, op) = [d EXCEPT !.chunks = x]
               \/ Effect(d, op) = [d EXCEPT !.versions = x]
               \/ Effect(d, op) = [d EXCEPT !.active = x]
    BY DEF Effect
  <2> HIDE DEF With
  <2> QED
    BY <2>1, <2>2
<1>3. IsDb(Effect(d, op))
  BY <1>1, <1>2
<1>4. IsDb(Settled(Effect(d, op)))
  <2> DEFINE e == Effect(d, op)
  <2>1. IsDb(e)
    BY <1>3
  <2> HIDE DEF e
  <2>2. IsDb(Settled(e))
    BY <2>1, SettledFields
  <2> QED
    BY <2>2 DEF e
<1>5. ASSUME NEW ok \in BOOLEAN PROVE IsDb([d EXCEPT !.ok = ok])
  <2> DEFINE f == [d EXCEPT !.ok = ok]
  <2>1. f = [schema |-> d.schema, width |-> d.width, chunks |-> d.chunks,
             embedded |-> d.embedded, versions |-> d.versions, active |-> d.active, ok |-> ok]
    BY DEF IsDb
  <2> HIDE DEF f
  <2>2. IsDb(f)
    BY <2>1 DEF IsDb
  <2> QED
    BY <2>2 DEF f
<1>6. FALSE \in BOOLEAN
  OBVIOUS
<1> QED
  BY <1>4, <1>5, <1>6 DEF Execute

\* Operations on the schema change the schema only.
Structural(op) == op.op \in {"create", "drop", "widen", "drop_table"}

LEMMA EffectOnSchema ==
  ASSUME NEW d, IsDb(d), NEW op, Structural(op)
  PROVE  LET e == Effect(d, op)
         IN  /\ IsDb(e) /\ SameRows(d, e) /\ e.ok = d.ok
             /\ e.schema = IF op.op = "drop_table" THEN {o \in d.schema : o[1] # op.target}
                           ELSE IF op.op = "widen" THEN d.schema
                           ELSE (d.schema \cup op.adds) \ op.drops
<1>1. CASE op.op = "drop_table"
  <2> DEFINE schema == {o \in d.schema : o[1] # op.target}
  <2>1. Effect(d, op) = [d EXCEPT !.schema = schema]
    BY <1>1 DEF Effect
  <2> HIDE DEF schema
  <2>2. Effect(d, op) = [schema |-> schema, width |-> d.width, chunks |-> d.chunks,
                         embedded |-> d.embedded, versions |-> d.versions,
                         active |-> d.active, ok |-> d.ok]
    BY <2>1 DEF IsDb
  <2> QED
    BY <1>1, <2>2 DEF IsDb, SameRows, schema
<1>2. CASE op.op = "widen"
  <2>1. Effect(d, op) = [d EXCEPT !.width = op.to]
    BY <1>2 DEF Effect
  <2>2. Effect(d, op) = [schema |-> d.schema, width |-> op.to, chunks |-> d.chunks,
                         embedded |-> d.embedded, versions |-> d.versions,
                         active |-> d.active, ok |-> d.ok]
    BY <2>1 DEF IsDb
  <2> QED
    BY <1>2, <2>2 DEF IsDb, SameRows
<1>3. CASE op.op \in {"create", "drop"}
  <2> DEFINE schema == (d.schema \cup op.adds) \ op.drops
  <2>1. Effect(d, op) = [d EXCEPT !.schema = schema]
    BY <1>3 DEF Effect
  <2> HIDE DEF schema
  <2>2. Effect(d, op) = [schema |-> schema, width |-> d.width, chunks |-> d.chunks,
                         embedded |-> d.embedded, versions |-> d.versions,
                         active |-> d.active, ok |-> d.ok]
    BY <2>1 DEF IsDb
  <2> QED
    BY <1>3, <2>2 DEF IsDb, SameRows, schema
<1> QED
  BY <1>1, <1>2, <1>3 DEF Structural

\* Most operations touch no object that rows depend on.
Neutral(op) ==
  /\ Structural(op)
  /\ op.op \in {"create", "drop"} => op.adds \cap Keys = {} /\ op.drops \cap Keys = {}
  /\ op.op = "drop_table" => \A k \in Keys : k[1] # op.target

Stays(d, e) == IsDb(e) /\ Rows(e) /\ SameRows(d, e) /\ KeysOf(e) = KeysOf(d)

LEMMA NeutralStep ==
  ASSUME NEW d, IsDb(d), Rows(d), NEW op, Neutral(op), Execute(d, op).ok = TRUE
  PROVE  d.ok = TRUE /\ Stays(d, Execute(d, op))
<1> DEFINE e == Effect(d, op)
<1>1. /\ IsDb(e) /\ SameRows(d, e)
      /\ e.schema = IF op.op = "drop_table" THEN {o \in d.schema : o[1] # op.target}
                    ELSE IF op.op = "widen" THEN d.schema
                    ELSE (d.schema \cup op.adds) \ op.drops
  BY EffectOnSchema DEF Neutral
<1>2. d.ok = TRUE /\ Execute(d, op) = Settled(e)
  BY ExecutedIs
<1> HIDE DEF e
<1>3. KeysOf(e) = KeysOf(d)
  <2>1. CASE op.op = "drop_table"
    BY <1>1, <2>1 DEF KeysOf, Neutral
  <2>2. CASE op.op = "widen"
    <3>1. e.schema = d.schema
      BY <1>1, <2>2
    <3> QED
      BY <3>1 DEF KeysOf
  <2>3. CASE op.op \in {"create", "drop"}
    <3>1. e.schema = (d.schema \cup op.adds) \ op.drops
      BY <1>1, <2>3
    <3> QED
      BY <2>3, <3>1 DEF KeysOf, Neutral
  <2> QED
    BY <2>1, <2>2, <2>3 DEF Neutral, Structural
<1>4. Settled(e) = e /\ Rows(e)
  BY <1>1, <1>3, SettledGrows
<1> QED
  BY <1>1, <1>2, <1>3, <1>4 DEF Stays

LEMMA StaysOn ==
  ASSUME NEW d, NEW e, NEW f, Stays(d, e), Stays(e, f) PROVE Stays(d, f)
  BY DEF Stays, SameRows

\* Induction, as a fact about sets: it can be cited for any property of numbers.
LEMMA LeastExists ==
  ASSUME NEW S \in SUBSET Nat, S # {}
  PROVE  \E x \in S : \A y \in S : x <= y
<1> DEFINE R == {pair \in Nat \X Nat : pair[1] < pair[2]}
<1>1. IsWellFoundedOn(R, Nat)
  BY NatLessThanWellFounded DEF OpToRel
<1> HIDE DEF R
<1>2. PICK x \in S : \A y \in S : <<y, x>> \notin R
  BY <1>1, WFMin
<1>3. ASSUME NEW y \in S PROVE x <= y
  <2>1. x \in Nat /\ y \in Nat /\ ~(y < x)
    BY <1>2 DEF R
  <2> QED
    BY <2>1
<1> QED
  BY <1>3

LEMMA SetInduction ==
  ASSUME NEW n \in Nat, NEW S, 0 \in S, \A k \in 0 .. n - 1 : k \in S => k + 1 \in S
  PROVE  0 .. n \subseteq S
<1> SUFFICES ASSUME 0 .. n \ S # {} PROVE FALSE
  OBVIOUS
<1> DEFINE T == (0 .. n) \ S
<1>1. T \in SUBSET Nat /\ T # {}
  OBVIOUS
<1>2. PICK x \in T : \A y \in T : x <= y
  <2> HIDE DEF T
  <2> QED
    BY <1>1, LeastExists
<1>3. x \in 1 .. n /\ x - 1 \in 0 .. n - 1
  OBVIOUS
<1>4. x - 1 \in S
  BY <1>2, <1>3
<1> QED
  BY <1>3, <1>4

\* The operations of a revision are executed one after the other.
LEMMA ExecutionIs ==
  ASSUME NEW d, NEW steps, NEW L \in Nat, Len(steps) = L, NEW after, after = Execution(d, steps)
  PROVE  /\ after[0] = d
         /\ \A n \in 1 .. L : after[n] = Execute(after[n - 1], steps[n])
<1> DEFINE Body(g, n) == IF n = 0 THEN d ELSE Execute(g[n - 1], steps[n])
           S == {m \in 0 .. L : \E g : g = [n \in 0 .. m |-> Body(g, n)]}
<1>1. L \in Nat
  OBVIOUS
<1>2. 0 \in S
  <2> DEFINE g == [n \in 0 .. 0 |-> d]
  <2>1. g = [n \in 0 .. 0 |-> Body(g, n)]
    OBVIOUS
  <2> HIDE DEF g
  <2>2. \E h : h = [n \in 0 .. 0 |-> Body(h, n)]
    BY <2>1
  <2> QED
    BY <1>1, <2>2
<1>3. ASSUME NEW m \in 0 .. L - 1, m \in S PROVE m + 1 \in S
  <2>1. PICK g : g = [n \in 0 .. m |-> Body(g, n)]
    BY <1>3
  <2> DEFINE h == [n \in 0 .. m + 1 |-> IF n <= m THEN g[n] ELSE Body(g, n)]
  <2>2. ASSUME NEW n \in 0 .. m + 1 PROVE h[n] = Body(h, n)
    <3>1. CASE n = 0
      <4>1. g[0] = d
        BY <2>1
      <4> QED
        BY <3>1, <4>1
    <3>2. CASE n # 0
      <4>1. n - 1 \in 0 .. m
        BY <3>2
      <4>2. h[n - 1] = g[n - 1]
        BY <4>1
      <4>3. h[n] = Body(g, n)
        <5>1. CASE n <= m
          <6>1. n \in 0 .. m
            BY <5>1
          <6>2. g[n] = Body(g, n)
            BY <2>1, <6>1
          <6> QED
            BY <5>1, <6>2
        <5>2. CASE ~(n <= m)
          BY <5>2
        <5> QED
          BY <5>1, <5>2
      <4> HIDE DEF h
      <4> QED
        BY <3>2, <4>2, <4>3
    <3> QED
      BY <3>1, <3>2
  <2>3. h = [n \in 0 .. m + 1 |-> Body(h, n)]
    BY <2>2
  <2>4. m + 1 \in 0 .. L
    BY <1>1
  <2> QED
    BY <2>3, <2>4
<1>4. L \in S
  <2>1. \A m \in 0 .. L - 1 : m \in S => m + 1 \in S
    BY <1>3
  <2> HIDE DEF S
  <2>2. 0 .. L \subseteq S
    BY <1>1, <1>2, <2>1, SetInduction
  <2> QED
    BY <1>1, <2>2
<1>5. PICK g : g = [n \in 0 .. L |-> Body(g, n)]
  BY <1>4
<1>6. after = CHOOSE f : f = [n \in 0 .. L |-> Body(f, n)]
  BY DEF Execution
<1>7. after = [n \in 0 .. L |-> Body(after, n)]
  BY <1>5, <1>6
<1>8. after[0] = d
  BY <1>1, <1>7
<1>9. \A n \in 1 .. Len(steps) : after[n] = Execute(after[n - 1], steps[n])
  BY <1>1, <1>7
<1> QED
  BY <1>8, <1>9

\* The L operations of a migration of d were executed and it was committed.
Committed(d, steps, L, after) ==
  /\ IsDb(d) /\ L \in Nat /\ Len(steps) = L
  /\ after = Execution(d, steps) /\ after[L].ok = TRUE

\* When the last operation ended well all of them did.
LEMMA ExecutionOk ==
  ASSUME NEW d, NEW steps, NEW L, NEW after, Committed(d, steps, L, after)
  PROVE  /\ after[0] = d
         /\ \A n \in 1 .. L : after[n] = Execute(after[n - 1], steps[n])
         /\ \A n \in 0 .. L : IsDb(after[n]) /\ after[n].ok = TRUE
<1> DEFINE D == {n \in 0 .. L : IsDb(after[n])}
           S == {n \in 0 .. L : after[L - n].ok = TRUE}
<1>1. after[0] = d /\ \A n \in 1 .. L : after[n] = Execute(after[n - 1], steps[n])
  BY ExecutionIs DEF Committed
<1>2. L \in Nat /\ after[L].ok = TRUE /\ IsDb(d)
  BY DEF Committed
<1>3. \A n \in 0 .. L - 1 : n \in D => n + 1 \in D
  <2> SUFFICES ASSUME NEW n \in 0 .. L - 1, IsDb(after[n]) PROVE n + 1 \in D
    OBVIOUS
  <2>1. n + 1 \in 1 .. L /\ n + 1 \in 0 .. L /\ (n + 1) - 1 = n
    BY <1>2
  <2>2. after[n + 1] = Execute(after[n], steps[n + 1])
    BY <1>1, <2>1
  <2> QED
    BY <2>1, <2>2, ExecutedIsDb
<1>4. 0 .. L \subseteq D
  <2>1. 0 \in D
    BY <1>1, <1>2
  <2> HIDE DEF D
  <2> QED
    BY <1>2, <1>3, <2>1, SetInduction
<1>5. \A n \in 0 .. L - 1 : n \in S => n + 1 \in S
  <2> SUFFICES ASSUME NEW n \in 0 .. L - 1, after[L - n].ok = TRUE PROVE n + 1 \in S
    OBVIOUS
  <2>1. /\ n + 1 \in 0 .. L /\ L - n \in 1 .. L /\ (L - n) - 1 = L - (n + 1)
        /\ L - (n + 1) \in 0 .. L
    BY <1>2
  <2>2. after[L - n] = Execute(after[L - (n + 1)], steps[L - n])
    BY <1>1, <2>1
  <2>3. IsDb(after[L - (n + 1)])
    BY <1>4, <2>1
  <2>4. Execute(after[L - (n + 1)], steps[L - n]).ok = TRUE
    BY <2>2
  <2>5. after[L - (n + 1)].ok = TRUE
    BY <2>3, <2>4, ExecutedIs
  <2> QED
    BY <2>1, <2>5
<1>6. 0 .. L \subseteq S
  <2>1. 0 \in S
    <3>1. L - 0 = L
      BY <1>2
    <3> QED
      BY <1>2, <3>1
  <2> HIDE DEF S
  <2> QED
    BY <1>2, <1>5, <2>1, SetInduction
<1>7. ASSUME NEW n \in 0 .. L PROVE IsDb(after[n]) /\ after[n].ok = TRUE
  <2>1. L - n \in 0 .. L /\ L - (L - n) = n
    BY <1>2
  <2>2. L - n \in S
    BY <1>6, <2>1
  <2>3. after[L - (L - n)].ok = TRUE
    BY <2>2
  <2> QED
    BY <1>4, <2>1, <2>3
<1> QED
  BY <1>1, <1>7

\* Operations that touch no object that rows depend on keep the rows.
LEMMA NeutralRange ==
  ASSUME NEW d, NEW steps, NEW L, NEW after, Committed(d, steps, L, after),
         NEW i \in 0 .. L, NEW j \in i .. L,
         \A n \in i + 1 .. j : Neutral(steps[n]), Rows(after[i])
  PROVE  Stays(after[i], after[j])
<1> DEFINE S == {n \in 0 .. j - i : Stays(after[i], after[i + n])}
<1>1. /\ \A n \in 1 .. L : after[n] = Execute(after[n - 1], steps[n])
      /\ \A n \in 0 .. L : IsDb(after[n]) /\ after[n].ok = TRUE
  <2>1. \A n \in 1 .. L : after[n] = Execute(after[n - 1], steps[n])
    <3>1. L \in Nat /\ Len(steps) = L /\ after = Execution(d, steps)
      BY DEF Committed
    <3> QED
      BY <3>1, ExecutionIs
  <2>2. \A n \in 0 .. L : IsDb(after[n]) /\ after[n].ok = TRUE
    BY ExecutionOk, Zenon
  <2> QED
    BY <2>1, <2>2
<1>2. L \in Nat /\ i \in Nat /\ j \in Nat /\ i <= j /\ j <= L /\ Rows(after[i])
  BY DEF Committed
<1>3. \A n \in 0 .. (j - i) - 1 : n \in S => n + 1 \in S
  <2> SUFFICES ASSUME NEW n \in 0 .. (j - i) - 1, Stays(after[i], after[i + n])
               PROVE  n + 1 \in S
    OBVIOUS
  <2> DEFINE m == i + n
  <2>1. /\ m + 1 \in i + 1 .. j /\ m + 1 \in 1 .. L /\ m + 1 \in 0 .. L
        /\ (m + 1) - 1 = m /\ n + 1 \in 0 .. j - i /\ i + (n + 1) = m + 1
    BY <1>2
  <2>2. Stays(after[i], after[m])
    OBVIOUS
  <2> HIDE DEF m
  <2>3. after[m + 1] = Execute(after[m], steps[m + 1]) /\ Neutral(steps[m + 1])
    BY <1>1, <2>1
  <2>4. after[m + 1].ok = TRUE
    BY <1>1, <2>1
  <2>5. Stays(after[m], after[m + 1])
    BY <2>2, <2>3, <2>4, NeutralStep DEF Stays
  <2>6. Stays(after[i], after[m + 1])
    BY <2>2, <2>5, StaysOn
  <2> QED
    BY <2>1, <2>6
<1>4. 0 \in S
  <2>1. i + 0 = i /\ i \in 0 .. L /\ 0 \in 0 .. j - i
    BY <1>2
  <2>2. Stays(after[i], after[i])
    BY <1>1, <1>2, <2>1 DEF Stays, SameRows
  <2> QED
    BY <2>1, <2>2
<1>5. j - i \in Nat
  BY <1>2
<1>6. 0 .. j - i \subseteq S
  <2> HIDE DEF S
  <2> QED
    BY <1>3, <1>4, <1>5, SetInduction
<1>7. j - i \in S /\ i + (j - i) = j
  <2> HIDE DEF S
  <2> QED
    BY <1>2, <1>6
<1>8. Stays(after[i], after[j])
  BY <1>7
<1> QED
  BY <1>8

AllNeutral(steps) == Len(steps) \in Nat /\ \A n \in 1 .. Len(steps) : Neutral(steps[n])

LEMMA NeutralExecution ==
  ASSUME NEW d, NEW steps, NEW L, NEW after, Committed(d, steps, L, after), Rows(d),
         AllNeutral(steps)
  PROVE  Stays(d, after[L])
<1>1. L \in Nat /\ \A n \in 0 + 1 .. L : Neutral(steps[n])
  BY DEF AllNeutral, Committed
<1>2. after[0] = d
  BY ExecutionOk
<1>3. 0 \in 0 .. L /\ L \in 0 .. L
  BY <1>1
<1>4. Stays(after[0], after[L])
  BY <1>1, <1>2, <1>3, NeutralRange
<1> QED
  BY <1>2, <1>4

\* What the operations of alembic.op do to the objects that rows depend on.
LEMMA ColumnsOnly ==
  ASSUME NEW t, NEW c
  PROVE  /\ <<t, "constraint", c>> \notin Keys /\ <<t, "index", c>> \notin Keys
         /\ <<t, "references", c>> \notin Keys
  BY DEF Keys, Chunks, Embeddings, Versions, Version, Status, Active

KeyTables == {"document_chunks", "chunk_embeddings", "document_chunk_versions", "documents"}

LEMMA KeyTable ==
  ASSUME NEW k \in Keys PROVE k[1] \in KeyTables
  BY DEF Keys, Chunks, Embeddings, Versions, Version, Status, Active, KeyTables

LEMMA TableAdds ==
  ASSUME NEW t, NEW columns, NEW constraints, NEW references,
         NEW k, k \in Keys \cap Table(t, columns, constraints, {}, references)
  PROVE  k[1] = t /\ (k = <<t, "table", t>> \/ \E c \in columns : k = <<t, "column", c>>)
<1>1. \/ k = <<t, "table", t>>
      \/ \E c \in columns : k = <<t, "column", c>>
      \/ \E c : k \in {<<t, "constraint", c>>, <<t, "index", c>>, <<t, "references", c>>}
  BY DEF Table
<1>2. k \in Keys
  OBVIOUS
<1>3. k = <<t, "table", t>> \/ \E c \in columns : k = <<t, "column", c>>
  BY <1>1, <1>2, ColumnsOnly
<1> QED
  BY <1>3

LEMMA NeutralOperations ==
  ASSUME NEW t, NEW c
  PROVE  /\ Neutral(CreateIndex(t, c)) /\ Neutral(DropIndex(t, c))
         /\ Neutral(AddConstraint(t, c)) /\ Neutral(DropConstraint(t, c))
         /\ \A r : Neutral(AddForeignKey(t, c, r)) /\ Neutral(DropForeignKey(t, c, r))
  BY ColumnsOnly DEF CreateIndex, DropIndex, AddConstraint, DropConstraint, AddForeignKey,
     DropForeignKey, Adds, Drops, Neutral, Structural

LEMMA NeutralColumns ==
  ASSUME NEW t, NEW c, <<t, "column", c>> \notin Keys
  PROVE  Neutral(AddColumn(t, c)) /\ Neutral(DropColumn(t, c))
  BY DEF AddColumn, DropColumn, Adds, Drops, Neutral, Structural

LEMMA NeutralTables ==
  ASSUME NEW t, t \notin KeyTables, NEW columns, NEW constraints, NEW references
  PROVE  Neutral(CreateTable(t, columns, constraints, references)) /\ Neutral(DropTable(t))
<1>1. Table(t, columns, constraints, {}, references) \cap Keys = {}
  BY TableAdds, KeyTable
<1> QED
  BY <1>1, KeyTable DEF CreateTable, DropTable, Neutral, Structural

LEMMA NeutralWidening == ASSUME NEW n PROVE Neutral(WidenVersionColumn(n))
  BY DEF WidenVersionColumn, Neutral, Structural

LEMMA NeutralLists ==
  ASSUME NEW a, NEW b, NEW c, NEW d, NEW e, NEW f
  PROVE  /\ Neutral(a) => AllNeutral(<<a>>)
         /\ Neutral(a) /\ Neutral(b) => AllNeutral(<<a, b>>)
         /\ Neutral(a) /\ Neutral(b) /\ Neutral(c) => AllNeutral(<<a, b, c>>)
         /\ Neutral(a) /\ Neutral(b) /\ Neutral(c) /\ Neutral(d) => AllNeutral(<<a, b, c, d>>)
         /\ Neutral(a) /\ Neutral(b) /\ Neutral(c) /\ Neutral(d) /\ Neutral(e)
              => AllNeutral(<<a, b, c, d, e>>)
         /\ Neutral(a) /\ Neutral(b) /\ Neutral(c) /\ Neutral(d) /\ Neutral(e) /\ Neutral(f)
              => AllNeutral(<<a, b, c, d, e, f>>)
  BY DEF AllNeutral

LEMMA NeutralDocuments ==
  ASSUME NEW columns, "active_chunk_version" \notin columns, NEW constraints, NEW references
  PROVE  Neutral(CreateTable("documents", columns, constraints, references))
<1>1. ASSUME NEW k \in Keys \cap Table("documents", columns, constraints, {}, references)
      PROVE  FALSE
  <2>1. k = <<"documents", "table", "documents">> \/ \E c \in columns : k = <<"documents", "column", c>>
    BY TableAdds
  <2>2. k \in Keys
    OBVIOUS
  <2> QED
    BY <2>1, <2>2 DEF Keys, Chunks, Embeddings, Versions, Version, Status, Active
<1> QED
  BY <1>1 DEF CreateTable, Neutral, Structural

LEMMA NeutralSearchVector == <<"document_chunks", "column", "search_vector">> \notin Keys
  BY DEF Keys, Chunks, Embeddings, Versions, Version, Status, Active

LEMMA NeutralPages ==
  ASSUME NEW c \in {"page_start", "page_end", "ocr_used"}
  PROVE  <<"document_chunks", "column", c>> \notin Keys
  BY DEF Keys, Chunks, Embeddings, Versions, Version, Status, Active

LEMMA NeutralTraceColumns ==
  ASSUME NEW t \in {"retrieval_traces", "retrieval_trace_results"}, NEW c
  PROVE  <<t, "column", c>> \notin Keys
  BY DEF Keys, Chunks, Embeddings, Versions, Version, Status, Active

LEMMA NeutralTableNames ==
  KeyTables \cap {"knowledge_bases", "retrieval_traces", "retrieval_trace_results",
                  "evaluation_datasets", "evaluation_cases", "evaluation_judgments",
                  "evaluation_runs", "evaluation_run_cases", "evaluation_baselines",
                  "evaluation_baseline_promotions"} = {}
  BY DEF KeyTables

\* The revisions that keep the rows.
LEMMA NeutralUpgrades ==
  \A r \in {1, 2, 5, 6, 7, 8, 9, 10, 13, 14, 15, 16} : AllNeutral(UpgradeSteps[r])
<1>1. AllNeutral(Upgrade_0001)
  BY NeutralLists, NeutralOperations, NeutralTables, NeutralTableNames DEF Upgrade_0001
<1>2. AllNeutral(Upgrade_0002)
  BY NeutralLists, NeutralOperations, NeutralDocuments DEF Upgrade_0002
<1>3. AllNeutral(Upgrade_0005)
  BY NeutralLists, NeutralOperations, NeutralColumns, NeutralSearchVector DEF Upgrade_0005
<1>4. AllNeutral(Upgrade_0006)
  BY NeutralLists, NeutralOperations, NeutralTables, NeutralTableNames DEF Upgrade_0006
<1>5. AllNeutral(Upgrade_0007)
  BY NeutralLists, NeutralOperations, NeutralTables, NeutralTableNames DEF Upgrade_0007
<1>6. AllNeutral(Upgrade_0008)
  BY NeutralLists, NeutralOperations, NeutralTables, NeutralTableNames DEF Upgrade_0008
<1>7. AllNeutral(Upgrade_0009)
  BY NeutralLists, NeutralOperations, NeutralTables, NeutralTableNames DEF Upgrade_0009
<1>8. AllNeutral(Upgrade_0010)
  BY NeutralLists, NeutralOperations, NeutralTables, NeutralTableNames, NeutralWidening DEF Upgrade_0010
<1>9. AllNeutral(Upgrade_0013)
  BY NeutralLists, NeutralOperations, NeutralColumns, NeutralPages DEF Upgrade_0013
<1>10. AllNeutral(Upgrade_0014)
  BY NeutralLists, NeutralColumns, NeutralTraceColumns DEF Upgrade_0014
<1>11. AllNeutral(Upgrade_0015)
  BY NeutralLists, NeutralColumns, NeutralTraceColumns, NeutralOperations DEF Upgrade_0015
<1>12. AllNeutral(Upgrade_0016)
  BY NeutralLists, NeutralColumns, NeutralTraceColumns DEF Upgrade_0016
<1> QED
  BY <1>1, <1>2, <1>3, <1>4, <1>5, <1>6, <1>7, <1>8, <1>9, <1>10, <1>11, <1>12 DEF UpgradeSteps

LEMMA NeutralDowngrades ==
  \A r \in {1, 5, 6, 7, 8, 9, 10, 13, 14, 15, 16} : AllNeutral(DowngradeSteps[r])
<1>1. AllNeutral(Downgrade_0001)
  BY NeutralLists, NeutralOperations, NeutralTables, NeutralTableNames DEF Downgrade_0001
<1>2. AllNeutral(Downgrade_0005)
  BY NeutralLists, NeutralOperations, NeutralColumns, NeutralSearchVector DEF Downgrade_0005
<1>3. AllNeutral(Downgrade_0006)
  BY NeutralLists, NeutralOperations, NeutralTables, NeutralTableNames DEF Downgrade_0006
<1>4. AllNeutral(Downgrade_0007)
  BY NeutralLists, NeutralOperations, NeutralTables, NeutralTableNames DEF Downgrade_0007
<1>5. AllNeutral(Downgrade_0008)
  BY NeutralLists, NeutralOperations, NeutralTables, NeutralTableNames DEF Downgrade_0008
<1>6. AllNeutral(Downgrade_0009)
  BY NeutralLists, NeutralOperations, NeutralTables, NeutralTableNames DEF Downgrade_0009
<1>7. AllNeutral(Downgrade_0010)
  BY NeutralLists, NeutralOperations, NeutralTables, NeutralTableNames, NeutralWidening DEF Downgrade_0010
<1>8. AllNeutral(Downgrade_0013)
  BY NeutralLists, NeutralOperations, NeutralColumns, NeutralPages DEF Downgrade_0013
<1>9. AllNeutral(Downgrade_0014)
  BY NeutralLists, NeutralColumns, NeutralTraceColumns DEF Downgrade_0014
<1>10. AllNeutral(Downgrade_0015)
  BY NeutralLists, NeutralColumns, NeutralTraceColumns, NeutralOperations DEF Downgrade_0015
<1>11. AllNeutral(Downgrade_0016)
  BY NeutralLists, NeutralColumns, NeutralTraceColumns DEF Downgrade_0016
<1> QED
  BY <1>1, <1>2, <1>3, <1>4, <1>5, <1>6, <1>7, <1>8, <1>9, <1>10, <1>11 DEF DowngradeSteps

\* One operation of a migration that was committed.
Did(d, op, e) == e = Execute(d, op) /\ IsDb(d) /\ IsDb(e) /\ d.ok = TRUE /\ e.ok = TRUE

\* One that adds to the schema keeps the rows.
LEMMA GrowDid ==
  ASSUME NEW d, NEW op, NEW e, Did(d, op, e), Rows(d), op.op = "create", op.drops = {}
  PROVE  Rows(e) /\ SameRows(d, e) /\ KeysOf(e) = KeysOf(d) \cup (op.adds \cap Keys)
<1>1. IsDb(d) /\ e = Execute(d, op) /\ e.ok = TRUE
  BY DEF Did
<1> DEFINE f == Effect(d, op)
<1>2. IsDb(f) /\ SameRows(d, f) /\ f.schema = d.schema \cup op.adds
  <2>1. Structural(op)
    BY DEF Structural
  <2>2. f.schema = (d.schema \cup op.adds) \ op.drops
    BY <1>1, <2>1, EffectOnSchema
  <2> QED
    BY <1>1, <2>1, <2>2, EffectOnSchema
<1>3. e = Settled(f)
  BY <1>1, ExecutedIs
<1> HIDE DEF f
<1>4. KeysOf(f) = KeysOf(d) \cup (op.adds \cap Keys)
  BY <1>2 DEF KeysOf
<1>5. Settled(f) = f /\ Rows(f)
  BY <1>2, <1>4, SettledGrows
<1> QED
  BY <1>2, <1>3, <1>4, <1>5

\* One that takes away from it takes the rows that have no room any more.
LEMMA ShrinkDid ==
  ASSUME NEW d, NEW op, NEW e, Did(d, op, e), Rows(d),
         op.op = "drop_table" \/ (op.op = "drop" /\ op.adds = {})
  PROVE  /\ Rows(e)
         /\ KeysOf(e) = IF op.op = "drop_table" THEN {k \in KeysOf(d) : k[1] # op.target}
                                                ELSE KeysOf(d) \ op.drops
         /\ Chunks \in e.schema => Ids(e.chunks) = Ids(d.chunks)
         /\ Chunks \in e.schema /\ Embeddings \in e.schema => e.embedded = d.embedded
         /\ Chunks \in e.schema /\ Version \in e.schema => e.chunks = d.chunks
         /\ Active \in e.schema => e.active = d.active
         /\ Versions \in e.schema => \A v \in d.versions : v.status = "ready" => v \in e.versions
<1>1. IsDb(d) /\ e = Execute(d, op) /\ e.ok = TRUE
  BY DEF Did
<1> DEFINE f == Effect(d, op)
<1>2. Structural(op)
  BY DEF Structural
<1>3. /\ IsDb(f) /\ SameRows(d, f)
      /\ f.schema = IF op.op = "drop_table" THEN {o \in d.schema : o[1] # op.target}
                    ELSE IF op.op = "widen" THEN d.schema
                    ELSE (d.schema \cup op.adds) \ op.drops
  BY <1>1, <1>2, EffectOnSchema
<1>4. e = Settled(f)
  BY <1>1, ExecutedIs
<1> HIDE DEF f
<1>5. KeysOf(f) = IF op.op = "drop_table" THEN {k \in KeysOf(d) : k[1] # op.target}
                                          ELSE KeysOf(d) \ op.drops
  <2>1. CASE op.op = "drop_table"
    <3>1. f.schema = {o \in d.schema : o[1] # op.target}
      BY <1>3, <2>1
    <3> QED
      BY <2>1, <3>1 DEF KeysOf
  <2>2. CASE op.op = "drop" /\ op.adds = {}
    <3>1. f.schema = d.schema \ op.drops
      BY <1>3, <2>2
    <3> QED
      BY <2>2, <3>1 DEF KeysOf
  <2> QED
    BY <2>1, <2>2
<1>6. /\ IsDb(e) /\ e.schema = f.schema
      /\ e.chunks = IF Chunks \notin f.schema THEN {}
                    ELSE IF Version \in f.schema THEN f.chunks
                    ELSE {[c EXCEPT !.version = 1] : c \in f.chunks}
      /\ e.embedded = IF Embeddings \in f.schema THEN f.embedded \cap Ids(e.chunks) ELSE {}
      /\ e.versions = IF Versions \notin f.schema THEN {}
                      ELSE IF Status \in f.schema THEN f.versions
                      ELSE {[v EXCEPT !.status = "ready"] : v \in f.versions}
      /\ e.active = IF Active \in f.schema THEN f.active ELSE [x \in Docs |-> 0]
  <2>1. IsDb(f)
    BY <1>3
  <2>2. IsDb(Settled(f)) /\ Settled(f).schema = f.schema
    BY <2>1, SettledFields
  <2> DEFINE s == Settled(f)
  <2>3. /\ s.chunks = IF Chunks \notin f.schema THEN {}
                      ELSE IF Version \in f.schema THEN f.chunks
                      ELSE {[c EXCEPT !.version = 1] : c \in f.chunks}
        /\ s.embedded = IF Embeddings \in f.schema THEN f.embedded \cap Ids(s.chunks) ELSE {}
        /\ s.versions = IF Versions \notin f.schema THEN {}
                        ELSE IF Status \in f.schema THEN f.versions
                        ELSE {[v EXCEPT !.status = "ready"] : v \in f.versions}
        /\ s.active = IF Active \in f.schema THEN f.active ELSE [x \in Docs |-> 0]
    BY <2>1, SettledFields
  <2>4. e = s
    BY <1>4
  <2> HIDE DEF s
  <2>5. IsDb(s) /\ s.schema = f.schema
    BY <2>2 DEF s
  <2> QED
    BY <2>3, <2>4, <2>5
<1>7. Rows(e)
  BY <1>3, <1>4, SettledFits DEF Rows, SameRows
<1>8. KeysOf(e) = KeysOf(f)
  BY <1>6 DEF KeysOf
<1>9. ASSUME Chunks \in e.schema PROVE Ids(e.chunks) = Ids(d.chunks)
  <2>1. CASE Version \in e.schema
    BY <1>3, <1>6, <1>9, <2>1 DEF SameRows
  <2>2. CASE Version \notin e.schema
    <3>1. e.chunks = {[c EXCEPT !.version = 1] : c \in d.chunks}
      BY <1>3, <1>6, <1>9, <2>2 DEF SameRows
    <3> DEFINE first(c) == [c EXCEPT !.version = 1]
    <3>2. \A c \in d.chunks : first(c).id = c.id
      BY DEF Rows, ChunkRow
    <3>3. e.chunks = {first(c) : c \in d.chunks}
      BY <3>1
    <3> HIDE DEF first
    <3>4. \A x \in e.chunks : \E c \in d.chunks : x.id = c.id
      BY <3>2, <3>3
    <3>5. \A c \in d.chunks : \E x \in e.chunks : x.id = c.id
      BY <3>2, <3>3
    <3> QED
      BY <3>4, <3>5 DEF Ids
  <2> QED
    BY <2>1, <2>2
<1>10. Chunks \in e.schema /\ Embeddings \in e.schema => e.embedded = d.embedded
  BY <1>3, <1>6, <1>9 DEF SameRows, Rows
<1>11. Chunks \in e.schema /\ Version \in e.schema => e.chunks = d.chunks
  BY <1>3, <1>6 DEF SameRows
<1>12. Active \in e.schema => e.active = d.active
  BY <1>3, <1>6 DEF SameRows
<1>13. ASSUME Versions \in e.schema, NEW v \in d.versions, v.status = "ready"
       PROVE  v \in e.versions
  <2>1. CASE Status \in e.schema
    BY <1>3, <1>6, <1>13, <2>1 DEF SameRows
  <2>2. CASE Status \notin e.schema
    <3>1. e.versions = {[w EXCEPT !.status = "ready"] : w \in d.versions}
      BY <1>3, <1>6, <1>13, <2>2 DEF SameRows
    <3>2. [v EXCEPT !.status = "ready"] = v
      BY <1>13 DEF Rows, VersionRow
    <3> QED
      BY <3>1, <3>2
  <2> QED
    BY <2>1, <2>2
<1> QED
  BY <1>5, <1>6, <1>7, <1>8, <1>9, <1>10, <1>11, <1>12, <1>13

LEMMA KeysDiffer ==
  /\ Chunks[1] = "document_chunks" /\ Version[1] = "document_chunks"
  /\ Embeddings[1] = "chunk_embeddings"
  /\ Versions[1] = "document_chunk_versions" /\ Status[1] = "document_chunk_versions"
  /\ Active[1] = "documents"
  /\ Chunks # Version /\ Versions # Status
  BY DEF Chunks, Embeddings, Versions, Version, Status, Active

LEMMA KeysAtAre ==
  /\ \A r \in 0 .. 2 : KeysAt(r) = {}
  /\ KeysAt(3) = {Chunks}
  /\ \A r \in 4 .. 10 : KeysAt(r) = {Chunks, Embeddings}
  /\ KeysAt(11) = {Chunks, Embeddings, Versions, Version, Active}
  /\ \A r \in 12 .. 16 : KeysAt(r) = Keys
<1>1. /\ Chunks \notin {Embeddings, Versions, Version, Active, Status}
      /\ Embeddings \notin {Versions, Version, Active, Status}
      /\ Status \notin {Versions, Version, Active}
  BY KeysDiffer
<1>2. \A r \in 0 .. 16 :
        /\ Chunks \in KeysAt(r) <=> r >= 3
        /\ Embeddings \in KeysAt(r) <=> r >= 4
        /\ Versions \in KeysAt(r) <=> r >= 11
        /\ Version \in KeysAt(r) <=> r >= 11
        /\ Active \in KeysAt(r) <=> r >= 11
        /\ Status \in KeysAt(r) <=> r >= 12
        /\ KeysAt(r) \subseteq Keys
  BY <1>1 DEF KeysAt, Keys
<1>3. \A r \in 0 .. 2 : KeysAt(r) = {}
  <2> SUFFICES ASSUME NEW r \in 0 .. 2 PROVE KeysAt(r) = {}
    OBVIOUS
  <2>1. r \in 0 .. 16 /\ ~(r >= 3) /\ ~(r >= 4) /\ ~(r >= 11) /\ ~(r >= 12)
    OBVIOUS
  <2> QED
    BY <1>2, <2>1 DEF Keys
<1>4. KeysAt(3) = {Chunks}
  BY <1>2 DEF Keys
<1>5. \A r \in 4 .. 10 : KeysAt(r) = {Chunks, Embeddings}
  <2> SUFFICES ASSUME NEW r \in 4 .. 10 PROVE KeysAt(r) = {Chunks, Embeddings}
    OBVIOUS
  <2>1. r \in 0 .. 16 /\ r >= 3 /\ r >= 4 /\ ~(r >= 11) /\ ~(r >= 12)
    OBVIOUS
  <2> QED
    BY <1>2, <2>1 DEF Keys
<1>6. KeysAt(11) = {Chunks, Embeddings, Versions, Version, Active}
  BY <1>2 DEF Keys
<1>7. \A r \in 12 .. 16 : KeysAt(r) = Keys
  <2> SUFFICES ASSUME NEW r \in 12 .. 16 PROVE KeysAt(r) = Keys
    OBVIOUS
  <2>1. r \in 0 .. 16 /\ r >= 3 /\ r >= 4 /\ r >= 11 /\ r >= 12
    OBVIOUS
  <2> QED
    BY <1>2, <2>1 DEF Keys
<1> QED
  BY <1>3, <1>4, <1>5, <1>6, <1>7

LEMMA KeyTablesAdded ==
  ASSUME NEW columns, NEW constraints, NEW references
  PROVE  /\ "chunk_version" \notin columns =>
              CreateTable("document_chunks", columns, constraints, references).adds \cap Keys
                = {Chunks}
         /\ CreateTable("chunk_embeddings", columns, constraints, references).adds \cap Keys
              = {Embeddings}
         /\ "status" \notin columns =>
              CreateTable("document_chunk_versions", columns, constraints, references).adds
                \cap Keys = {Versions}
<1> DEFINE Of(t) == Table(t, columns, constraints, {}, references) \cap Keys
<1>1. \A t : \A k \in Of(t) :
        k[1] = t /\ (k = <<t, "table", t>> \/ \E c \in columns : k = <<t, "column", c>>)
  BY TableAdds
<1>2. \A t : <<t, "table", t>> \in Keys => <<t, "table", t>> \in Of(t)
  BY DEF Table
<1> HIDE DEF Of
<1>3. \A t : \A k \in Of(t) : k \in Keys
  BY DEF Of
<1>4. "chunk_version" \notin columns => Of("document_chunks") = {Chunks}
  BY <1>1, <1>2, <1>3 DEF Keys, Chunks, Embeddings, Versions, Version, Status, Active
<1>5. Of("chunk_embeddings") = {Embeddings}
  BY <1>1, <1>2, <1>3 DEF Keys, Chunks, Embeddings, Versions, Version, Status, Active
<1>6. "status" \notin columns => Of("document_chunk_versions") = {Versions}
  BY <1>1, <1>2, <1>3 DEF Keys, Chunks, Embeddings, Versions, Version, Status, Active
<1> QED
  BY <1>4, <1>5, <1>6 DEF CreateTable, Of

LEMMA KeyColumns ==
  /\ AddColumn("documents", "active_chunk_version").adds \cap Keys = {Active}
  /\ AddColumn("document_chunks", "chunk_version").adds \cap Keys = {Version}
  /\ AddColumn("document_chunk_versions", "status").adds \cap Keys = {Status}
  /\ DropColumn("documents", "active_chunk_version").drops = {Active}
  /\ DropColumn("document_chunks", "chunk_version").drops = {Version}
  /\ DropColumn("document_chunk_versions", "status").drops = {Status}
  BY DEF AddColumn, DropColumn, Adds, Drops, Keys, Version, Status, Active

LEMMA OperationKinds ==
  ASSUME NEW t, NEW c
  PROVE  /\ AddColumn(t, c).op = "create" /\ AddColumn(t, c).drops = {}
         /\ DropColumn(t, c).op = "drop" /\ DropColumn(t, c).adds = {}
  BY DEF AddColumn, DropColumn, Adds, Drops

LEMMA CreateTableKind ==
  ASSUME NEW t, NEW columns, NEW constraints, NEW references
  PROVE  /\ CreateTable(t, columns, constraints, references).op = "create"
         /\ CreateTable(t, columns, constraints, references).drops = {}
  BY DEF CreateTable

LEMMA DropTableKind ==
  ASSUME NEW t PROVE DropTable(t).op = "drop_table" /\ DropTable(t).target = t
  BY DEF DropTable

\* An active version is one whose row says it is ready.
Ready(d) ==
  \A x \in Docs : d.active[x] > 0 =>
    [doc |-> x, version |-> d.active[x], status |-> "ready"] \in d.versions

\* The database between two migrations.
Sane(d, r) ==
  /\ IsDb(d) /\ d.ok = TRUE /\ Rows(d) /\ KeysOf(d) = KeysAt(r)
  /\ r >= 11 => Ready(d)

LEMMA ServedIs ==
  ASSUME NEW d
  PROVE  Served(d) = IF Active \in d.schema
                       THEN Ids({c \in d.chunks : c.version = d.active[c.doc]}) \cap d.embedded
                       ELSE d.embedded
  BY DEF Served, HasColumn, Active, Ids

LEMMA KeyIsThere ==
  ASSUME NEW d, NEW k \in Keys PROVE k \in d.schema <=> k \in KeysOf(d)
  BY DEF KeysOf

\* Rows that stay are served as before.
LEMMA StaysSane ==
  ASSUME NEW d, NEW r \in 0 .. 16, Sane(d, r), NEW e, Stays(d, e), e.ok = TRUE,
         NEW s \in 0 .. 16, KeysAt(s) = KeysAt(r), s >= 11 <=> r >= 11
  PROVE  Sane(e, s) /\ Served(e) = Served(d)
<1>1. Active \in e.schema <=> Active \in d.schema
  BY KeyIsThere DEF Stays, Keys
<1>2. Served(e) = Served(d)
  BY <1>1, ServedIs DEF Stays, SameRows
<1> QED
  BY <1>2 DEF Sane, Stays, SameRows, Ready

LEMMA StepAt ==
  ASSUME NEW d, NEW steps, NEW L, NEW after, Committed(d, steps, L, after),
         NEW m \in 0 .. L - 1
  PROVE  Did(after[m], steps[m + 1], after[m + 1])
<1>1. L \in Nat /\ Len(steps) = L /\ after = Execution(d, steps)
  BY DEF Committed
<1>2. \A k \in 1 .. L : after[k] = Execute(after[k - 1], steps[k])
  BY <1>1, ExecutionIs
<1>3. \A k \in 0 .. L : IsDb(after[k]) /\ after[k].ok = TRUE
  BY ExecutionOk, Zenon
<1>4. m \in 0 .. L /\ m + 1 \in 1 .. L /\ m + 1 \in 0 .. L /\ (m + 1) - 1 = m
  BY <1>1
<1>5. after[m + 1] = Execute(after[m], steps[m + 1])
  BY <1>2, <1>4
<1> QED
  BY <1>3, <1>4, <1>5 DEF Did

LEMMA StepsAre ==
  ASSUME NEW d, NEW steps, NEW L, NEW after, Committed(d, steps, L, after)
  PROVE  /\ 1 <= L => Did(after[0], steps[1], after[1])
         /\ 2 <= L => Did(after[1], steps[2], after[2])
         /\ 3 <= L => Did(after[2], steps[3], after[3])
         /\ 4 <= L => Did(after[3], steps[4], after[4])
         /\ 5 <= L => Did(after[4], steps[5], after[5])
         /\ 6 <= L => Did(after[5], steps[6], after[6])
         /\ 7 <= L => Did(after[6], steps[7], after[7])
         /\ 8 <= L => Did(after[7], steps[8], after[8])
         /\ 9 <= L => Did(after[8], steps[9], after[9])
<1>1. L \in Nat
  BY DEF Committed
<1>2. \A m \in 0 .. L - 1 : Did(after[m], steps[m + 1], after[m + 1])
  BY StepAt
<1> QED
  BY <1>1, <1>2

LEMMA NeutralDid ==
  ASSUME NEW d, NEW op, NEW e, Did(d, op, e), Rows(d), Neutral(op)
  PROVE  Stays(d, e)
  BY NeutralStep DEF Did

LEMMA BeginsWith ==
  ASSUME NEW d, NEW steps, NEW L, NEW after, Committed(d, steps, L, after) PROVE after[0] = d
<1>1. L \in Nat /\ Len(steps) = L /\ after = Execution(d, steps)
  BY DEF Committed
<1> QED
  BY <1>1, ExecutionIs

\* The revisions the rows depend on, one by one.
LEMMA UpgradeChunks ==
  ASSUME NEW d, Sane(d, 2), NEW after, Committed(d, Upgrade_0003, 2, after)
  PROVE  Sane(after[2], 3)
<1>1. after[0] = d
  BY BeginsWith
<1>2. Did(d, Upgrade_0003[1], after[1])
  BY <1>1, StepsAre
<1>3. Did(after[1], Upgrade_0003[2], after[2])
  BY StepsAre
<1>4. /\ Upgrade_0003[1].op = "create" /\ Upgrade_0003[1].drops = {}
      /\ Upgrade_0003[1].adds \cap Keys = {Chunks}
  <2>1. PICK columns, constraints, references :
          /\ Upgrade_0003[1] = CreateTable("document_chunks", columns, constraints, references)
          /\ "chunk_version" \notin columns
    BY DEF Upgrade_0003
  <2> QED
    BY <2>1, CreateTableKind, KeyTablesAdded
<1>5. Neutral(Upgrade_0003[2])
  <2>1. Upgrade_0003[2] = CreateIndex("document_chunks", "ix_document_chunks_document_offsets")
    BY DEF Upgrade_0003
  <2> QED
    BY <2>1, NeutralOperations
<1>6. Rows(d) /\ KeysOf(d) = {}
  BY KeysAtAre DEF Sane
<1>7. Rows(after[1]) /\ KeysOf(after[1]) = {Chunks}
  <2>1. Rows(after[1]) /\ KeysOf(after[1]) = KeysOf(d) \cup (Upgrade_0003[1].adds \cap Keys)
    BY <1>2, <1>4, <1>6, GrowDid
  <2> QED
    BY <1>4, <1>6, <2>1
<1>8. Stays(after[1], after[2])
  BY <1>3, <1>5, <1>7, NeutralDid
<1>9. KeysAt(3) = {Chunks} /\ ~(3 >= 11)
  BY KeysAtAre
<1> QED
  BY <1>3, <1>7, <1>8, <1>9 DEF Sane, Stays, Did

LEMMA UpgradeEmbeddings ==
  ASSUME NEW d, Sane(d, 3), NEW after, Committed(d, Upgrade_0004, 2, after)
  PROVE  Sane(after[2], 4)
<1>1. after[0] = d
  BY BeginsWith
<1>2. Did(d, Upgrade_0004[1], after[1])
  BY <1>1, StepsAre
<1>3. Did(after[1], Upgrade_0004[2], after[2])
  BY StepsAre
<1>4. /\ Upgrade_0004[1].op = "create" /\ Upgrade_0004[1].drops = {}
      /\ Upgrade_0004[1].adds \cap Keys = {Embeddings}
  <2>1. PICK columns, constraints, references :
          Upgrade_0004[1] = CreateTable("chunk_embeddings", columns, constraints, references)
    BY DEF Upgrade_0004
  <2> QED
    BY <2>1, CreateTableKind, KeyTablesAdded
<1>5. Neutral(Upgrade_0004[2])
  <2>1. Upgrade_0004[2] = CreateIndex("chunk_embeddings", "ix_chunk_embeddings_space_chunk")
    BY DEF Upgrade_0004
  <2> QED
    BY <2>1, NeutralOperations
<1>6. Rows(d) /\ KeysOf(d) = {Chunks}
  BY KeysAtAre DEF Sane
<1>7. Rows(after[1]) /\ KeysOf(after[1]) = {Chunks, Embeddings}
  <2>1. Rows(after[1]) /\ KeysOf(after[1]) = KeysOf(d) \cup (Upgrade_0004[1].adds \cap Keys)
    BY <1>2, <1>4, <1>6, GrowDid
  <2> QED
    BY <1>4, <1>6, <2>1
<1>8. Stays(after[1], after[2])
  BY <1>3, <1>5, <1>7, NeutralDid
<1>9. KeysAt(4) = {Chunks, Embeddings} /\ ~(4 >= 11)
  BY KeysAtAre
<1> QED
  BY <1>3, <1>7, <1>8, <1>9 DEF Sane, Stays, Did

LEMMA DowngradeDocuments ==
  ASSUME NEW d, Sane(d, 2), NEW after, Committed(d, Downgrade_0002, 2, after)
  PROVE  Sane(after[2], 1)
<1>1. after[0] = d
  BY BeginsWith
<1>2. Did(d, Downgrade_0002[1], after[1])
  BY <1>1, StepsAre
<1>3. Did(after[1], Downgrade_0002[2], after[2])
  BY StepsAre
<1>4. Neutral(Downgrade_0002[1])
  <2>1. Downgrade_0002[1] = DropIndex("documents", "ix_documents_knowledge_base_created_id")
    BY DEF Downgrade_0002
  <2> QED
    BY <2>1, NeutralOperations
<1>5. Downgrade_0002[2].op = "drop_table" /\ Downgrade_0002[2].target = "documents"
  <2>1. Downgrade_0002[2] = DropTable("documents")
    BY DEF Downgrade_0002
  <2> QED
    BY <2>1, DropTableKind
<1>6. Rows(d) /\ KeysOf(d) = {}
  BY KeysAtAre DEF Sane
<1>7. Rows(after[1]) /\ KeysOf(after[1]) = {}
  BY <1>2, <1>4, <1>6, NeutralDid DEF Stays
<1>8. Rows(after[2]) /\ KeysOf(after[2]) = {k \in KeysOf(after[1]) : k[1] # "documents"}
  BY <1>3, <1>5, <1>7, ShrinkDid
<1>9. KeysOf(after[2]) = {}
  BY <1>7, <1>8, KeysDiffer
<1>10. KeysAt(1) = {} /\ ~(1 >= 11)
  BY KeysAtAre
<1> QED
  BY <1>3, <1>8, <1>9, <1>10 DEF Sane, Did

LEMMA DowngradeChunks ==
  ASSUME NEW d, Sane(d, 3), NEW after, Committed(d, Downgrade_0003, 2, after)
  PROVE  Sane(after[2], 2)
<1>1. after[0] = d
  BY BeginsWith
<1>2. Did(d, Downgrade_0003[1], after[1])
  BY <1>1, StepsAre
<1>3. Did(after[1], Downgrade_0003[2], after[2])
  BY StepsAre
<1>4. Neutral(Downgrade_0003[1])
  <2>1. Downgrade_0003[1] = DropIndex("document_chunks", "ix_document_chunks_document_offsets")
    BY DEF Downgrade_0003
  <2> QED
    BY <2>1, NeutralOperations
<1>5. Downgrade_0003[2].op = "drop_table" /\ Downgrade_0003[2].target = "document_chunks"
  <2>1. Downgrade_0003[2] = DropTable("document_chunks")
    BY DEF Downgrade_0003
  <2> QED
    BY <2>1, DropTableKind
<1>6. Rows(d) /\ KeysOf(d) = {Chunks}
  BY KeysAtAre DEF Sane
<1>7. Rows(after[1]) /\ KeysOf(after[1]) = {Chunks}
  BY <1>2, <1>4, <1>6, NeutralDid DEF Stays
<1>8. Rows(after[2]) /\ KeysOf(after[2]) = {k \in KeysOf(after[1]) : k[1] # "document_chunks"}
  BY <1>3, <1>5, <1>7, ShrinkDid
<1>9. KeysOf(after[2]) = {}
  BY <1>7, <1>8, KeysDiffer
<1>10. KeysAt(2) = {} /\ ~(2 >= 11)
  BY KeysAtAre
<1> QED
  BY <1>3, <1>8, <1>9, <1>10 DEF Sane, Did

LEMMA DowngradeEmbeddings ==
  ASSUME NEW d, Sane(d, 4), NEW after, Committed(d, Downgrade_0004, 2, after)
  PROVE  Sane(after[2], 3)
<1>1. after[0] = d
  BY BeginsWith
<1>2. Did(d, Downgrade_0004[1], after[1])
  BY <1>1, StepsAre
<1>3. Did(after[1], Downgrade_0004[2], after[2])
  BY StepsAre
<1>4. Neutral(Downgrade_0004[1])
  <2>1. Downgrade_0004[1] = DropIndex("chunk_embeddings", "ix_chunk_embeddings_space_chunk")
    BY DEF Downgrade_0004
  <2> QED
    BY <2>1, NeutralOperations
<1>5. Downgrade_0004[2].op = "drop_table" /\ Downgrade_0004[2].target = "chunk_embeddings"
  <2>1. Downgrade_0004[2] = DropTable("chunk_embeddings")
    BY DEF Downgrade_0004
  <2> QED
    BY <2>1, DropTableKind
<1>6. Rows(d) /\ KeysOf(d) = {Chunks, Embeddings}
  BY KeysAtAre DEF Sane
<1>7. Rows(after[1]) /\ KeysOf(after[1]) = {Chunks, Embeddings}
  BY <1>2, <1>4, <1>6, NeutralDid DEF Stays
<1>8. Rows(after[2]) /\ KeysOf(after[2]) = {k \in KeysOf(after[1]) : k[1] # "chunk_embeddings"}
  BY <1>3, <1>5, <1>7, ShrinkDid
<1>9. KeysOf(after[2]) = {Chunks}
  BY <1>7, <1>8, KeysDiffer
<1>10. KeysAt(3) = {Chunks} /\ ~(3 >= 11)
  BY KeysAtAre
<1> QED
  BY <1>3, <1>8, <1>9, <1>10 DEF Sane, Did

LEMMA StatusColumns ==
  \A c \in {"attempt_id", "lease_expires_at", "attempt_count"} :
    <<"document_chunk_versions", "column", c>> \notin Keys
  BY DEF Keys, Chunks, Embeddings, Versions, Version, Status, Active

LEMMA UpgradeStatus ==
  ASSUME NEW d, Sane(d, 11), NEW after, Committed(d, Upgrade_0012, 8, after)
  PROVE  Sane(after[8], 12) /\ Served(after[8]) = Served(d)
<1>1. after[0] = d
  BY BeginsWith
<1>2. Did(d, Upgrade_0012[1], after[1])
  BY <1>1, StepsAre
<1>3. /\ Upgrade_0012[1].op = "create" /\ Upgrade_0012[1].drops = {}
      /\ Upgrade_0012[1].adds \cap Keys = {Status}
  <2>1. Upgrade_0012[1] = AddColumn("document_chunk_versions", "status")
    BY DEF Upgrade_0012
  <2> QED
    BY <2>1, OperationKinds, KeyColumns
<1>4. \A n \in 1 + 1 .. 8 : Neutral(Upgrade_0012[n])
  <2>1. /\ Neutral(Upgrade_0012[2]) /\ Neutral(Upgrade_0012[3]) /\ Neutral(Upgrade_0012[4])
        /\ Neutral(Upgrade_0012[5]) /\ Neutral(Upgrade_0012[6]) /\ Neutral(Upgrade_0012[7])
        /\ Neutral(Upgrade_0012[8])
    BY StatusColumns, NeutralOperations, NeutralColumns DEF Upgrade_0012
  <2> QED
    BY <2>1
<1>5. Rows(d) /\ KeysOf(d) = KeysAt(11) /\ Ready(d)
  BY DEF Sane
<1>6. Rows(after[1]) /\ SameRows(d, after[1]) /\ KeysOf(after[1]) = KeysAt(11) \cup {Status}
  <2>1. /\ Rows(after[1]) /\ SameRows(d, after[1])
        /\ KeysOf(after[1]) = KeysOf(d) \cup (Upgrade_0012[1].adds \cap Keys)
    BY <1>2, <1>3, <1>5, GrowDid
  <2> QED
    BY <1>3, <1>5, <2>1
<1>7. Stays(after[1], after[8])
  <2>1. 1 \in 0 .. 8 /\ 8 \in 1 .. 8
    OBVIOUS
  <2> QED
    BY <1>4, <1>6, <2>1, NeutralRange
<1> DEFINE e == after[8]
<1>8. e.ok = TRUE
  <2>1. Did(after[7], Upgrade_0012[8], after[8])
    BY StepsAre
  <2> QED
    BY <2>1 DEF Did
<1>9. Stays(after[1], e)
  BY <1>7
<1> HIDE DEF e
<1>10. KeysOf(e) = KeysAt(12)
  BY <1>6, <1>9, KeysAtAre DEF Stays, Keys
<1>11. SameRows(d, e)
  BY <1>6, <1>9 DEF Stays, SameRows
<1>12. Ready(e)
  BY <1>5, <1>11 DEF Ready, SameRows
<1>13. Active \in e.schema /\ Active \in d.schema
  BY <1>5, <1>10, KeysAtAre DEF Keys, KeysOf
<1>14. Served(e) = Served(d)
  BY <1>11, <1>13, ServedIs DEF SameRows
<1>15. Sane(e, 12)
  BY <1>8, <1>9, <1>10, <1>12 DEF Sane, Stays
<1> QED
  BY <1>14, <1>15 DEF e

LEMMA DowngradeStatus ==
  ASSUME NEW d, Sane(d, 12), NEW after, Committed(d, Downgrade_0012, 8, after)
  PROVE  Sane(after[8], 11) /\ Served(after[8]) = Served(d)
<1>1. after[0] = d
  BY BeginsWith
<1>2. Did(after[7], Downgrade_0012[8], after[8])
  BY StepsAre
<1>3. /\ Downgrade_0012[8].op = "drop" /\ Downgrade_0012[8].adds = {}
      /\ Downgrade_0012[8].drops = {Status}
  <2>1. Downgrade_0012[8] = DropColumn("document_chunk_versions", "status")
    BY DEF Downgrade_0012
  <2> QED
    BY <2>1, OperationKinds, KeyColumns
<1>4. \A n \in 0 + 1 .. 7 : Neutral(Downgrade_0012[n])
  <2>1. /\ Neutral(Downgrade_0012[1])
        /\ Neutral(Downgrade_0012[2]) /\ Neutral(Downgrade_0012[3]) /\ Neutral(Downgrade_0012[4])
        /\ Neutral(Downgrade_0012[5]) /\ Neutral(Downgrade_0012[6]) /\ Neutral(Downgrade_0012[7])
    BY StatusColumns, NeutralOperations, NeutralColumns DEF Downgrade_0012
  <2> QED
    BY <2>1
<1>5. Rows(d) /\ KeysOf(d) = KeysAt(12) /\ Ready(d)
  BY DEF Sane
<1>6. Stays(d, after[7])
  <2>1. 0 \in 0 .. 8 /\ 7 \in 0 .. 8 /\ Rows(after[0])
    BY <1>1, <1>5
  <2>2. Stays(after[0], after[7])
    BY <1>4, <2>1, NeutralRange
  <2> QED
    BY <1>1, <2>2
<1> DEFINE c == after[7]
           e == after[8]
           op == Downgrade_0012[8]
<1>7. Did(c, op, e) /\ op.op = "drop" /\ op.adds = {} /\ op.drops = {Status} /\ Stays(d, c)
  BY <1>2, <1>3, <1>6
<1> HIDE DEF c, e, op
<1>8. /\ Rows(e) /\ KeysOf(e) = KeysOf(c) \ {Status}
      /\ Chunks \in e.schema /\ Embeddings \in e.schema => e.embedded = c.embedded
      /\ Chunks \in e.schema /\ Version \in e.schema => e.chunks = c.chunks
      /\ Active \in e.schema => e.active = c.active
      /\ Versions \in e.schema => \A v \in c.versions : v.status = "ready" => v \in e.versions
  BY <1>7, ShrinkDid DEF Stays
<1>9. KeysOf(e) = {Chunks, Embeddings, Versions, Version, Active}
  <2>1. KeysOf(e) = Keys \ {Status}
    BY <1>5, <1>7, <1>8, KeysAtAre DEF Stays
  <2>2. Status \notin {Chunks, Embeddings, Versions, Version, Active}
    BY KeysDiffer
  <2> QED
    BY <2>1, <2>2 DEF Keys
<1>10. /\ Chunks \in e.schema /\ Embeddings \in e.schema /\ Versions \in e.schema
       /\ Version \in e.schema /\ Active \in e.schema
  BY <1>9 DEF KeysOf
<1>11. /\ e.embedded = d.embedded /\ e.chunks = d.chunks /\ e.active = d.active
       /\ \A v \in d.versions : v.status = "ready" => v \in e.versions
  BY <1>7, <1>8, <1>10 DEF Stays, SameRows
<1>12. Ready(e)
  <2> SUFFICES ASSUME NEW x \in Docs, e.active[x] > 0
               PROVE  [doc |-> x, version |-> e.active[x], status |-> "ready"] \in e.versions
    BY DEF Ready
  <2>1. [doc |-> x, version |-> e.active[x], status |-> "ready"] \in d.versions
    BY <1>5, <1>11 DEF Ready
  <2> QED
    BY <1>11, <2>1
<1>13. Active \in d.schema
  BY <1>5, KeysAtAre DEF Keys, KeysOf
<1>14. Served(e) = Served(d)
  BY <1>10, <1>11, <1>13, ServedIs
<1>15. Sane(e, 11)
  BY <1>7, <1>8, <1>9, <1>12, KeysAtAre DEF Sane, Did
<1> QED
  BY <1>14, <1>15 DEF e

\* The statements of migration 0011, which change rows.
VersionOneOf(chunks) == {[doc |-> c.doc, version |-> 1, status |-> "ready"] : c \in chunks}

LEMMA StatementIs ==
  /\ Statement("insert_versions").op = "insert_versions"
  /\ Statement("activate_version_one").op = "activate_version_one"
  /\ Statement("delete_inactive_chunks").op = "delete_inactive_chunks"
  BY DEF Statement

LEMMA InsertsVersions ==
  ASSUME NEW d, NEW op, op.op = "insert_versions", NEW e, Did(d, op, e), Rows(d),
         Versions \in KeysOf(d)
  PROVE  /\ Rows(e) /\ KeysOf(e) = KeysOf(d)
         /\ e.chunks = d.chunks /\ e.embedded = d.embedded /\ e.active = d.active
         /\ e.versions = d.versions \cup VersionOneOf(d.chunks)
<1> DEFINE versions == d.versions \cup VersionOneOf(d.chunks)
           f == Effect(d, op)
<1>1. f = [d EXCEPT !.versions = versions]
  BY DEF Effect, VersionOneOf
<1>2. IsDb(d) /\ e = Settled(f)
  BY ExecutedIs DEF Did
<1>3. versions \subseteq VersionRow /\ \A v \in VersionOneOf(d.chunks) : v.status = "ready"
  BY DEF Rows, ChunkRow, VersionRow, VersionOneOf
<1>4. IsFiniteSet(versions)
  <2> DEFINE one == [c \in d.chunks |-> [doc |-> c.doc, version |-> 1, status |-> "ready"]]
  <2>1. VersionOneOf(d.chunks) = {one[c] : c \in d.chunks}
    BY DEF VersionOneOf
  <2> HIDE DEF one
  <2>2. IsFiniteSet(VersionOneOf(d.chunks)) /\ IsFiniteSet(d.versions)
    BY <2>1, ImageIsFinite DEF Rows
  <2> QED
    BY <2>2, FS_Union
<1> HIDE DEF f, versions
<1>5. /\ IsDb(f) /\ f.schema = d.schema /\ f.chunks = d.chunks /\ f.embedded = d.embedded
      /\ f.active = d.active /\ f.versions = versions
  <2>1. f = [schema |-> d.schema, width |-> d.width, chunks |-> d.chunks,
             embedded |-> d.embedded, versions |-> versions, active |-> d.active, ok |-> d.ok]
    BY <1>1, <1>2 DEF IsDb
  <2> QED
    BY <1>2, <2>1 DEF IsDb
<1>6. Rows(f)
  <2>1. Versions \in f.schema
    BY <1>5 DEF KeysOf
  <2>2. Status \notin f.schema => \A v \in versions : v.status = "ready"
    BY <1>3, <1>5 DEF Rows, versions
  <2> QED
    BY <1>3, <1>4, <1>5, <2>1, <2>2 DEF Rows
<1>7. e = f
  BY <1>2, <1>5, <1>6, SettledStays
<1> QED
  BY <1>5, <1>6, <1>7 DEF KeysOf, versions

Activated(d) == [x \in Docs |-> IF \E v \in d.versions : v.doc = x THEN 1 ELSE d.active[x]]

LEMMA ActivatesVersionOne ==
  ASSUME NEW d, NEW op, op.op = "activate_version_one", NEW e, Did(d, op, e), Rows(d),
         Active \in KeysOf(d)
  PROVE  /\ Rows(e) /\ KeysOf(e) = KeysOf(d)
         /\ e.chunks = d.chunks /\ e.embedded = d.embedded /\ e.versions = d.versions
         /\ e.active = Activated(d)
<1> DEFINE active == Activated(d)
           f == Effect(d, op)
<1>1. f = [d EXCEPT !.active = active]
  BY DEF Effect, Activated
<1>2. IsDb(d) /\ e = Settled(f)
  BY ExecutedIs DEF Did
<1>3. active \in [Docs -> Nat]
  BY DEF Rows, Activated
<1> HIDE DEF f, active
<1>4. /\ IsDb(f) /\ f.schema = d.schema /\ f.chunks = d.chunks /\ f.embedded = d.embedded
      /\ f.active = active /\ f.versions = d.versions
  <2>1. f = [schema |-> d.schema, width |-> d.width, chunks |-> d.chunks,
             embedded |-> d.embedded, versions |-> d.versions, active |-> active, ok |-> d.ok]
    BY <1>1, <1>2 DEF IsDb
  <2> QED
    BY <1>2, <2>1 DEF IsDb
<1>5. Rows(f)
  <2>1. Active \in f.schema
    BY <1>4 DEF KeysOf
  <2> QED
    BY <1>3, <1>4, <2>1 DEF Rows
<1>6. e = f
  BY <1>2, <1>4, <1>5, SettledStays
<1> QED
  BY <1>4, <1>5, <1>6 DEF KeysOf, active

\* What is deleted was not served.
LEMMA DeletesInactive ==
  ASSUME NEW d, NEW op, op.op = "delete_inactive_chunks", NEW e, Did(d, op, e), Rows(d),
         {Chunks, Version, Embeddings, Active} \subseteq KeysOf(d)
  PROVE  Rows(e) /\ KeysOf(e) = KeysOf(d) /\ e.embedded = Served(d)
<1> DEFINE chunks == {c \in d.chunks : c.version = d.active[c.doc]}
           f == Effect(d, op)
<1>1. f = [d EXCEPT !.chunks = chunks]
  BY DEF Effect
<1>2. IsDb(d) /\ e = Settled(f)
  BY ExecutedIs DEF Did
<1>3. /\ Chunks \in d.schema /\ Version \in d.schema /\ Embeddings \in d.schema
      /\ Active \in d.schema
  BY DEF KeysOf
<1>4. Served(d) = Ids(chunks) \cap d.embedded
  BY <1>3, ServedIs
<1>5. chunks \subseteq ChunkRow /\ IsFiniteSet(chunks)
  <2>1. chunks \in SUBSET d.chunks /\ IsFiniteSet(d.chunks)
    BY DEF Rows
  <2>2. IsFiniteSet(chunks)
    <3> HIDE DEF chunks
    <3> QED
      BY <2>1, FS_Subset
  <2> QED
    BY <2>2 DEF Rows
<1> HIDE DEF f, chunks
<1>6. /\ IsDb(f) /\ f.schema = d.schema /\ f.chunks = chunks /\ f.embedded = d.embedded
      /\ f.active = d.active /\ f.versions = d.versions
  <2>1. f = [schema |-> d.schema, width |-> d.width, chunks |-> chunks,
             embedded |-> d.embedded, versions |-> d.versions, active |-> d.active, ok |-> d.ok]
    BY <1>1, <1>2 DEF IsDb
  <2> QED
    BY <1>2, <2>1 DEF IsDb
<1>7. Rows(e)
  BY <1>2, <1>5, <1>6, SettledFits DEF Rows
<1> DEFINE s == Settled(f)
<1>8. s.schema = f.schema /\ s.chunks = f.chunks /\ s.embedded = f.embedded \cap Ids(s.chunks)
  <2>1. /\ s.schema = f.schema
        /\ s.chunks = IF Chunks \notin f.schema THEN {}
                      ELSE IF Version \in f.schema THEN f.chunks
                      ELSE {[c EXCEPT !.version = 1] : c \in f.chunks}
        /\ s.embedded = IF Embeddings \in f.schema THEN f.embedded \cap Ids(s.chunks) ELSE {}
    BY <1>6, SettledFields
  <2> HIDE DEF s
  <2> QED
    BY <1>3, <1>6, <2>1
<1> HIDE DEF s
<1>9. e = s
  BY <1>2 DEF s
<1> QED
  BY <1>4, <1>6, <1>7, <1>8, <1>9 DEF KeysOf

\* Documents older than versions get version one, ready and active, and are
\* served as before.
LEMMA UpgradeVersions ==
  ASSUME NEW d, Sane(d, 10), NEW after, Committed(d, Upgrade_0011, 10, after)
  PROVE  Sane(after[10], 11) /\ Served(after[10]) = Served(d)
<1>1. /\ Did(d, Upgrade_0011[1], after[1]) /\ Did(after[1], Upgrade_0011[2], after[2])
      /\ Did(after[2], Upgrade_0011[3], after[3]) /\ Did(after[3], Upgrade_0011[4], after[4])
      /\ Did(after[4], Upgrade_0011[5], after[5]) /\ Did(after[5], Upgrade_0011[6], after[6])
  <2>1. after[0] = d
    BY BeginsWith
  <2> QED
    BY <2>1, StepsAre
<1>2. /\ Upgrade_0011[1].op = "create" /\ Upgrade_0011[1].drops = {}
      /\ Upgrade_0011[1].adds \cap Keys = {Active}
  <2>1. Upgrade_0011[1] = AddColumn("documents", "active_chunk_version")
    BY DEF Upgrade_0011
  <2> QED
    BY <2>1, OperationKinds, KeyColumns
<1>3. Neutral(Upgrade_0011[2])
  <2>1. Upgrade_0011[2] = AddConstraint("documents", "ck_documents_active_chunk_version")
    BY DEF Upgrade_0011
  <2> QED
    BY <2>1, NeutralOperations
<1>4. /\ Upgrade_0011[3].op = "create" /\ Upgrade_0011[3].drops = {}
      /\ Upgrade_0011[3].adds \cap Keys = {Versions}
  <2>1. PICK columns, constraints, references :
          /\ Upgrade_0011[3]
               = CreateTable("document_chunk_versions", columns, constraints, references)
          /\ "status" \notin columns
    BY DEF Upgrade_0011
  <2> QED
    BY <2>1, CreateTableKind, KeyTablesAdded
<1>5. Upgrade_0011[4].op = "insert_versions" /\ Upgrade_0011[5].op = "activate_version_one"
  <2>1. /\ Upgrade_0011[4] = Statement("insert_versions")
        /\ Upgrade_0011[5] = Statement("activate_version_one")
    BY DEF Upgrade_0011, Backfill
  <2> QED
    BY <2>1, StatementIs
<1>6. /\ Upgrade_0011[6].op = "create" /\ Upgrade_0011[6].drops = {}
      /\ Upgrade_0011[6].adds \cap Keys = {Version}
  <2>1. Upgrade_0011[6] = AddColumn("document_chunks", "chunk_version")
    BY DEF Upgrade_0011
  <2> QED
    BY <2>1, OperationKinds, KeyColumns
<1>7. \A n \in 6 + 1 .. 10 : Neutral(Upgrade_0011[n])
  <2>1. /\ Neutral(Upgrade_0011[7]) /\ Neutral(Upgrade_0011[8]) /\ Neutral(Upgrade_0011[9])
        /\ Neutral(Upgrade_0011[10])
    BY NeutralOperations DEF Upgrade_0011
  <2> QED
    BY <2>1
<1>8. Rows(d) /\ KeysOf(d) = {Chunks, Embeddings} /\ Active \notin d.schema
      /\ Version \notin d.schema /\ Versions \notin d.schema
  <2>1. Rows(d) /\ KeysOf(d) = {Chunks, Embeddings}
    BY KeysAtAre DEF Sane
  <2>2. {Active, Version, Versions} \cap {Chunks, Embeddings} = {}
    BY KeysDiffer
  <2>3. {Active, Version, Versions} \subseteq Keys
    BY DEF Keys
  <2> QED
    BY <2>1, <2>2, <2>3 DEF KeysOf
<1>9. Rows(after[1]) /\ SameRows(d, after[1]) /\ KeysOf(after[1]) = {Chunks, Embeddings, Active}
  <2>1. /\ Rows(after[1]) /\ SameRows(d, after[1])
        /\ KeysOf(after[1]) = KeysOf(d) \cup (Upgrade_0011[1].adds \cap Keys)
    BY <1>1, <1>2, <1>8, GrowDid
  <2> QED
    BY <1>2, <1>8, <2>1
<1>10. Stays(after[1], after[2])
  BY <1>1, <1>3, <1>9, NeutralDid
<1>11. /\ Rows(after[3]) /\ SameRows(d, after[3])
       /\ KeysOf(after[3]) = {Chunks, Embeddings, Active, Versions}
  <2>1. /\ Rows(after[3]) /\ SameRows(after[2], after[3])
        /\ KeysOf(after[3]) = KeysOf(after[2]) \cup (Upgrade_0011[3].adds \cap Keys)
    BY <1>1, <1>4, <1>10, GrowDid DEF Stays
  <2>2. SameRows(d, after[3])
    BY <1>9, <1>10, <2>1 DEF Stays, SameRows
  <2> QED
    BY <1>4, <1>9, <1>10, <2>1, <2>2 DEF Stays
<1>12. /\ Rows(after[4]) /\ KeysOf(after[4]) = {Chunks, Embeddings, Active, Versions}
       /\ after[4].chunks = d.chunks /\ after[4].embedded = d.embedded
       /\ after[4].active = d.active /\ after[4].versions = VersionOneOf(d.chunks)
  <2>1. /\ Rows(after[4]) /\ KeysOf(after[4]) = KeysOf(after[3])
        /\ after[4].chunks = after[3].chunks /\ after[4].embedded = after[3].embedded
        /\ after[4].active = after[3].active
        /\ after[4].versions = after[3].versions \cup VersionOneOf(after[3].chunks)
    BY <1>1, <1>5, <1>11, InsertsVersions
  <2>2. d.versions = {}
    BY <1>8 DEF Rows
  <2> QED
    BY <1>11, <2>1, <2>2 DEF SameRows
<1>13. /\ Rows(after[5]) /\ KeysOf(after[5]) = {Chunks, Embeddings, Active, Versions}
       /\ after[5].chunks = d.chunks /\ after[5].embedded = d.embedded
       /\ after[5].versions = VersionOneOf(d.chunks)
       /\ after[5].active
            = [x \in Docs |-> IF \E v \in VersionOneOf(d.chunks) : v.doc = x THEN 1 ELSE d.active[x]]
  <2>1. /\ Rows(after[5]) /\ KeysOf(after[5]) = KeysOf(after[4])
        /\ after[5].chunks = after[4].chunks /\ after[5].embedded = after[4].embedded
        /\ after[5].versions = after[4].versions
        /\ after[5].active = Activated(after[4])
    <3>1. Active \in KeysOf(after[4])
      BY <1>12
    <3> QED
      BY <1>1, <1>5, <1>12, <3>1, ActivatesVersionOne
  <2> QED
    BY <1>12, <2>1 DEF Activated
<1>14. /\ Rows(after[6]) /\ SameRows(after[5], after[6])
       /\ KeysOf(after[6]) = {Chunks, Embeddings, Active, Versions, Version}
  <2>1. /\ Rows(after[6]) /\ SameRows(after[5], after[6])
        /\ KeysOf(after[6]) = KeysOf(after[5]) \cup (Upgrade_0011[6].adds \cap Keys)
    BY <1>1, <1>6, <1>13, GrowDid
  <2> QED
    BY <1>6, <1>13, <2>1
<1>15. Stays(after[6], after[10])
  <2>1. 6 \in 0 .. 10 /\ 10 \in 6 .. 10
    OBVIOUS
  <2> QED
    BY <1>7, <1>14, <2>1, NeutralRange
<1>16. after[10].ok = TRUE
  BY DEF Committed
<1> DEFINE e == after[10]
<1>17. /\ e.ok = TRUE /\ IsDb(e) /\ Rows(e)
       /\ KeysOf(e) = {Chunks, Embeddings, Versions, Version, Active}
       /\ e.chunks = d.chunks /\ e.embedded = d.embedded
       /\ e.versions = VersionOneOf(d.chunks)
       /\ e.active
            = [x \in Docs |-> IF \E v \in VersionOneOf(d.chunks) : v.doc = x THEN 1 ELSE d.active[x]]
  BY <1>13, <1>14, <1>15, <1>16 DEF Stays, SameRows
<1> HIDE DEF e
<1>18. d.active = [x \in Docs |-> 0]
  BY <1>8 DEF Rows
<1>19. /\ \A c \in d.chunks : c.doc \in Docs /\ c.version = 1
       /\ d.embedded \subseteq Ids(d.chunks)
  BY <1>8 DEF Rows, ChunkRow
<1>20. Ready(e)
  <2> SUFFICES ASSUME NEW x \in Docs, e.active[x] > 0
               PROVE  [doc |-> x, version |-> e.active[x], status |-> "ready"] \in e.versions
    BY DEF Ready
  <2>1. (\E v \in VersionOneOf(d.chunks) : v.doc = x) /\ e.active[x] = 1
    BY <1>17, <1>18
  <2>2. PICK c \in d.chunks : c.doc = x
    BY <2>1 DEF VersionOneOf
  <2>3. [doc |-> x, version |-> 1, status |-> "ready"] \in VersionOneOf(d.chunks)
    BY <2>2 DEF VersionOneOf
  <2> QED
    BY <1>17, <2>1, <2>3
<1>21. \A c \in d.chunks : c.version = e.active[c.doc]
  <2> SUFFICES ASSUME NEW c \in d.chunks PROVE c.version = e.active[c.doc]
    OBVIOUS
  <2>1. [doc |-> c.doc, version |-> 1, status |-> "ready"] \in VersionOneOf(d.chunks)
    BY DEF VersionOneOf
  <2>2. \E v \in VersionOneOf(d.chunks) : v.doc = c.doc
    BY <2>1
  <2> QED
    BY <1>17, <1>19, <2>2
<1>22. Served(e) = Served(d)
  <2>1. Active \in e.schema
    BY <1>17 DEF KeysOf
  <2>2. {c \in e.chunks : c.version = e.active[c.doc]} = d.chunks
    BY <1>17, <1>21
  <2>3. Served(e) = Ids(d.chunks) \cap d.embedded
    BY <1>17, <2>1, <2>2, ServedIs
  <2>4. Served(d) = d.embedded
    BY <1>8, ServedIs
  <2> QED
    BY <1>19, <2>3, <2>4
<1>23. Sane(e, 11)
  BY <1>17, <1>20, KeysAtAre DEF Sane
<1> QED
  BY <1>22, <1>23 DEF e

\* The downgrade is lossy, but what it deletes was not served.
LEMMA DowngradeVersions ==
  ASSUME NEW d, Sane(d, 11), NEW after, Committed(d, Downgrade_0011, 9, after)
  PROVE  Sane(after[9], 10) /\ Served(after[9]) = Served(d)
<1>1. /\ Did(d, Downgrade_0011[1], after[1]) /\ Did(after[4], Downgrade_0011[5], after[5])
      /\ Did(after[5], Downgrade_0011[6], after[6]) /\ Did(after[6], Downgrade_0011[7], after[7])
      /\ Did(after[7], Downgrade_0011[8], after[8]) /\ Did(after[8], Downgrade_0011[9], after[9])
  <2>1. after[0] = d
    BY BeginsWith
  <2> QED
    BY <2>1, StepsAre
<1>2. Downgrade_0011[1].op = "delete_inactive_chunks"
  <2>1. Downgrade_0011[1] = Statement("delete_inactive_chunks")
    BY DEF Downgrade_0011, DiscardHistory
  <2> QED
    BY <2>1, StatementIs
<1>3. \A n \in 1 + 1 .. 4 : Neutral(Downgrade_0011[n])
  <2>1. /\ Neutral(Downgrade_0011[2]) /\ Neutral(Downgrade_0011[3]) /\ Neutral(Downgrade_0011[4])
    BY NeutralOperations DEF Downgrade_0011
  <2> QED
    BY <2>1
<1>4. Neutral(Downgrade_0011[6]) /\ Neutral(Downgrade_0011[8])
  BY NeutralOperations DEF Downgrade_0011
<1>5. /\ Downgrade_0011[5].op = "drop" /\ Downgrade_0011[5].adds = {}
      /\ Downgrade_0011[5].drops = {Version}
  <2>1. Downgrade_0011[5] = DropColumn("document_chunks", "chunk_version")
    BY DEF Downgrade_0011
  <2> QED
    BY <2>1, OperationKinds, KeyColumns
<1>6. /\ Downgrade_0011[7].op = "drop_table"
      /\ Downgrade_0011[7].target = "document_chunk_versions"
  <2>1. Downgrade_0011[7] = DropTable("document_chunk_versions")
    BY DEF Downgrade_0011
  <2> QED
    BY <2>1, DropTableKind
<1>7. /\ Downgrade_0011[9].op = "drop" /\ Downgrade_0011[9].adds = {}
      /\ Downgrade_0011[9].drops = {Active}
  <2>1. Downgrade_0011[9] = DropColumn("documents", "active_chunk_version")
    BY DEF Downgrade_0011
  <2> QED
    BY <2>1, OperationKinds, KeyColumns
<1>8. Rows(d) /\ KeysOf(d) = {Chunks, Embeddings, Versions, Version, Active}
  BY KeysAtAre DEF Sane
<1>9. Rows(after[1]) /\ KeysOf(after[1]) = KeysOf(d) /\ after[1].embedded = Served(d)
  BY <1>1, <1>2, <1>8, DeletesInactive
<1>10. Stays(after[1], after[4])
  <2>1. 1 \in 0 .. 9 /\ 4 \in 1 .. 9
    OBVIOUS
  <2> QED
    BY <1>3, <1>9, <2>1, NeutralRange
<1>11. /\ Rows(after[4]) /\ KeysOf(after[4]) = {Chunks, Embeddings, Versions, Version, Active}
       /\ after[4].embedded = Served(d)
  BY <1>8, <1>9, <1>10 DEF Stays, SameRows
<1>12. /\ Rows(after[5]) /\ KeysOf(after[5]) = {Chunks, Embeddings, Versions, Active}
       /\ after[5].embedded = Served(d)
  <2>1. /\ Rows(after[5]) /\ KeysOf(after[5]) = KeysOf(after[4]) \ {Version}
        /\ Chunks \in after[5].schema /\ Embeddings \in after[5].schema
             => after[5].embedded = after[4].embedded
    BY <1>1, <1>5, <1>11, ShrinkDid
  <2>2. KeysOf(after[5]) = {Chunks, Embeddings, Versions, Active}
    BY <1>11, <2>1, KeysDiffer
  <2> QED
    BY <1>11, <2>1, <2>2 DEF KeysOf
<1>13. Stays(after[5], after[6])
  BY <1>1, <1>4, <1>12, NeutralDid
<1>14. /\ Rows(after[7]) /\ KeysOf(after[7]) = {Chunks, Embeddings, Active}
       /\ after[7].embedded = Served(d)
  <2>1. /\ Rows(after[6]) /\ KeysOf(after[6]) = {Chunks, Embeddings, Versions, Active}
        /\ after[6].embedded = Served(d)
    BY <1>12, <1>13 DEF Stays, SameRows
  <2>2. /\ Rows(after[7])
        /\ KeysOf(after[7]) = {k \in KeysOf(after[6]) : k[1] # "document_chunk_versions"}
        /\ Chunks \in after[7].schema /\ Embeddings \in after[7].schema
             => after[7].embedded = after[6].embedded
    BY <1>1, <1>6, <2>1, ShrinkDid
  <2>3. KeysOf(after[7]) = {Chunks, Embeddings, Active}
    BY <2>1, <2>2, KeysDiffer
  <2> QED
    BY <2>1, <2>2, <2>3 DEF KeysOf
<1>15. Stays(after[7], after[8])
  BY <1>1, <1>4, <1>14, NeutralDid
<1> DEFINE c == after[8]
           e == after[9]
           op == Downgrade_0011[9]
<1>16. /\ Did(c, op, e) /\ op.op = "drop" /\ op.adds = {} /\ op.drops = {Active}
       /\ Rows(c) /\ KeysOf(c) = {Chunks, Embeddings, Active} /\ c.embedded = Served(d)
  BY <1>1, <1>7, <1>14, <1>15 DEF Stays, SameRows
<1> HIDE DEF c, e, op
<1>17. /\ Rows(e) /\ KeysOf(e) = KeysOf(c) \ {Active}
       /\ Chunks \in e.schema /\ Embeddings \in e.schema => e.embedded = c.embedded
  BY <1>16, ShrinkDid
<1>18. KeysOf(e) = {Chunks, Embeddings} /\ Active \notin {Chunks, Embeddings}
  BY <1>16, <1>17, KeysDiffer
<1>19. e.embedded = Served(d) /\ Active \notin e.schema
  BY <1>16, <1>17, <1>18 DEF KeysOf, Keys
<1>20. Served(e) = Served(d)
  BY <1>19, ServedIs
<1>21. Sane(e, 10)
  BY <1>16, <1>17, <1>18, KeysAtAre DEF Sane, Did
<1> QED
  BY <1>20, <1>21 DEF e

-----------------------------------------------------------------------------
\* A migration that was committed keeps the rows in order, and what is served.
Migrated(d, steps, e) == e = Execution(d, steps)[Len(steps)] /\ e.ok = TRUE

Alike(r, s) ==
  r \in 0 .. 16 /\ s \in 0 .. 16 /\ KeysAt(s) = KeysAt(r) /\ (s >= 11 <=> r >= 11)

LEMMA NeutralKeeps ==
  ASSUME NEW d, NEW r, NEW s, Alike(r, s), Sane(d, r), NEW steps, AllNeutral(steps),
         NEW e, Migrated(d, steps, e)
  PROVE  Sane(e, s) /\ Served(e) = Served(d)
<1> DEFINE L == Len(steps)
           after == Execution(d, steps)
<1>1. L \in Nat /\ Len(steps) = L /\ IsDb(d) /\ Rows(d)
  BY DEF AllNeutral, Sane
<1>2. Committed(d, steps, L, after) /\ after[L] = e
  BY <1>1 DEF Committed, Migrated
<1> HIDE DEF L, after
<1>3. Stays(d, e) /\ e.ok = TRUE
  <2>1. Stays(d, after[L])
    BY <1>1, <1>2, NeutralExecution
  <2> QED
    BY <1>2, <2>1 DEF Committed
<1>4. r \in 0 .. 16 /\ s \in 0 .. 16 /\ KeysAt(s) = KeysAt(r) /\ (s >= 11 <=> r >= 11)
  BY DEF Alike
<1> QED
  BY <1>3, <1>4, StaysSane

Lengths ==
  /\ Len(Upgrade_0003) = 2 /\ Len(Upgrade_0004) = 2
  /\ Len(Upgrade_0011) = 10 /\ Len(Upgrade_0012) = 8
  /\ Len(Downgrade_0002) = 2 /\ Len(Downgrade_0003) = 2 /\ Len(Downgrade_0004) = 2
  /\ Len(Downgrade_0011) = 9 /\ Len(Downgrade_0012) = 8

LEMMA LengthsAre == Lengths
<1>1. Len(Upgrade_0003) = 2 /\ Len(Upgrade_0004) = 2
  BY DEF Upgrade_0003, Upgrade_0004
<1>2. Len(Upgrade_0011) = 10
  BY DEF Upgrade_0011
<1>3. Len(Upgrade_0012) = 8
  BY DEF Upgrade_0012
<1>4. Len(Downgrade_0002) = 2 /\ Len(Downgrade_0003) = 2 /\ Len(Downgrade_0004) = 2
  BY DEF Downgrade_0002, Downgrade_0003, Downgrade_0004
<1>5. Len(Downgrade_0011) = 9
  BY DEF Downgrade_0011
<1>6. Len(Downgrade_0012) = 8
  BY DEF Downgrade_0012
<1> QED
  BY <1>1, <1>2, <1>3, <1>4, <1>5, <1>6 DEF Lengths

LEMMA SpecialSteps ==
  /\ UpgradeSteps[3] = Upgrade_0003 /\ UpgradeSteps[4] = Upgrade_0004
  /\ UpgradeSteps[11] = Upgrade_0011 /\ UpgradeSteps[12] = Upgrade_0012
  /\ DowngradeSteps[2] = Downgrade_0002 /\ DowngradeSteps[3] = Downgrade_0003
  /\ DowngradeSteps[4] = Downgrade_0004
  /\ DowngradeSteps[11] = Downgrade_0011 /\ DowngradeSteps[12] = Downgrade_0012
  BY DEF UpgradeSteps, DowngradeSteps

\* The revisions between which the objects that rows depend on are the same.
LEMMA SameKeys ==
  ASSUME NEW r \in 0 .. 15, r + 1 \notin {3, 4, 11, 12}
  PROVE  Alike(r, r + 1) /\ Alike(r + 1, r)
<1>1. \/ r \in 0 .. 2 /\ r + 1 \in 0 .. 2
      \/ r \in 4 .. 10 /\ r + 1 \in 4 .. 10
      \/ r \in 12 .. 16 /\ r + 1 \in 12 .. 16
  OBVIOUS
<1>2. (r >= 11 <=> r + 1 >= 11) /\ r \in 0 .. 16 /\ r + 1 \in 0 .. 16
  OBVIOUS
<1>3. KeysAt(r) = KeysAt(r + 1)
  BY <1>1, KeysAtAre
<1> QED
  BY <1>2, <1>3 DEF Alike

LEMMA UpgradeKeeps ==
  ASSUME NEW d, NEW r \in 0 .. 15, Sane(d, r), NEW steps, steps = UpgradeSteps[r + 1],
         NEW e, Migrated(d, steps, e)
  PROVE  /\ Sane(e, r + 1)
         /\ r >= 4 => Served(e) = Served(d)
<1>1. IsDb(d)
  BY DEF Sane
<1>2. CASE r = 2
  <2>1. r + 1 = 3 /\ steps = Upgrade_0003 /\ Len(Upgrade_0003) = 2 /\ ~(r >= 4)
    BY <1>2, SpecialSteps, LengthsAre DEF Lengths
  <2>2. Sane(d, 2) /\ Migrated(d, Upgrade_0003, e)
    BY <1>2, <2>1
  <2> DEFINE after == Execution(d, Upgrade_0003)
  <2>3. Committed(d, Upgrade_0003, 2, after) /\ after[2] = e
    BY <1>1, <2>1, <2>2 DEF Committed, Migrated
  <2> HIDE DEF after
  <2>4. Sane(after[2], 3)
    BY <2>2, <2>3, UpgradeChunks
  <2> QED
    BY <1>2, <2>1, <2>3, <2>4
<1>3. CASE r = 3
  <2>1. r + 1 = 4 /\ steps = Upgrade_0004 /\ Len(Upgrade_0004) = 2 /\ ~(r >= 4)
    BY <1>3, SpecialSteps, LengthsAre DEF Lengths
  <2>2. Sane(d, 3) /\ Migrated(d, Upgrade_0004, e)
    BY <1>3, <2>1
  <2> DEFINE after == Execution(d, Upgrade_0004)
  <2>3. Committed(d, Upgrade_0004, 2, after) /\ after[2] = e
    BY <1>1, <2>1, <2>2 DEF Committed, Migrated
  <2> HIDE DEF after
  <2>4. Sane(after[2], 4)
    BY <2>2, <2>3, UpgradeEmbeddings
  <2> QED
    BY <1>3, <2>1, <2>3, <2>4
<1>4. CASE r = 10
  <2>1. r + 1 = 11 /\ steps = Upgrade_0011 /\ Len(Upgrade_0011) = 10
    BY <1>4, SpecialSteps, LengthsAre DEF Lengths
  <2>2. Sane(d, 10) /\ Migrated(d, Upgrade_0011, e)
    BY <1>4, <2>1
  <2> DEFINE after == Execution(d, Upgrade_0011)
  <2>3. Committed(d, Upgrade_0011, 10, after) /\ after[10] = e
    BY <1>1, <2>1, <2>2 DEF Committed, Migrated
  <2> HIDE DEF after
  <2>4. Sane(after[10], 11) /\ Served(after[10]) = Served(d)
    BY <2>2, <2>3, UpgradeVersions
  <2> QED
    BY <1>4, <2>1, <2>3, <2>4
<1>5. CASE r = 11
  <2>1. r + 1 = 12 /\ steps = Upgrade_0012 /\ Len(Upgrade_0012) = 8
    BY <1>5, SpecialSteps, LengthsAre DEF Lengths
  <2>2. Sane(d, 11) /\ Migrated(d, Upgrade_0012, e)
    BY <1>5, <2>1
  <2> DEFINE after == Execution(d, Upgrade_0012)
  <2>3. Committed(d, Upgrade_0012, 8, after) /\ after[8] = e
    BY <1>1, <2>1, <2>2 DEF Committed, Migrated
  <2> HIDE DEF after
  <2>4. Sane(after[8], 12) /\ Served(after[8]) = Served(d)
    BY <2>2, <2>3, UpgradeStatus
  <2> QED
    BY <1>5, <2>1, <2>3, <2>4
<1>6. CASE r \notin {2, 3, 10, 11}
  <2> DEFINE s == r + 1
  <2>1. AllNeutral(steps)
    <3>1. r + 1 \in {1, 2, 5, 6, 7, 8, 9, 10, 13, 14, 15, 16}
      BY <1>6
    <3> QED
      BY <3>1, NeutralUpgrades
  <2>2. Alike(r, s)
    BY <1>6, SameKeys
  <2> HIDE DEF s
  <2>3. Sane(e, s) /\ Served(e) = Served(d)
    BY <2>1, <2>2, NeutralKeeps
  <2> QED
    BY <2>3 DEF s
<1> QED
  BY <1>2, <1>3, <1>4, <1>5, <1>6

LEMMA DowngradeKeeps ==
  ASSUME NEW d, NEW r \in 0 .. 15, Sane(d, r + 1), NEW steps, steps = DowngradeSteps[r + 1],
         NEW e, Migrated(d, steps, e)
  PROVE  /\ Sane(e, r)
         /\ r >= 4 => Served(e) = Served(d)
<1>1. IsDb(d)
  BY DEF Sane
<1>2. CASE r = 1
  <2>1. r + 1 = 2 /\ steps = Downgrade_0002 /\ Len(Downgrade_0002) = 2 /\ ~(r >= 4)
    BY <1>2, SpecialSteps, LengthsAre DEF Lengths
  <2>2. Sane(d, 2) /\ Migrated(d, Downgrade_0002, e)
    BY <1>2, <2>1
  <2> DEFINE after == Execution(d, Downgrade_0002)
  <2>3. Committed(d, Downgrade_0002, 2, after) /\ after[2] = e
    BY <1>1, <2>1, <2>2 DEF Committed, Migrated
  <2> HIDE DEF after
  <2>4. Sane(after[2], 1)
    BY <2>2, <2>3, DowngradeDocuments
  <2> QED
    BY <1>2, <2>1, <2>3, <2>4
<1>3. CASE r = 2
  <2>1. r + 1 = 3 /\ steps = Downgrade_0003 /\ Len(Downgrade_0003) = 2 /\ ~(r >= 4)
    BY <1>3, SpecialSteps, LengthsAre DEF Lengths
  <2>2. Sane(d, 3) /\ Migrated(d, Downgrade_0003, e)
    BY <1>3, <2>1
  <2> DEFINE after == Execution(d, Downgrade_0003)
  <2>3. Committed(d, Downgrade_0003, 2, after) /\ after[2] = e
    BY <1>1, <2>1, <2>2 DEF Committed, Migrated
  <2> HIDE DEF after
  <2>4. Sane(after[2], 2)
    BY <2>2, <2>3, DowngradeChunks
  <2> QED
    BY <1>3, <2>1, <2>3, <2>4
<1>4. CASE r = 3
  <2>1. r + 1 = 4 /\ steps = Downgrade_0004 /\ Len(Downgrade_0004) = 2 /\ ~(r >= 4)
    BY <1>4, SpecialSteps, LengthsAre DEF Lengths
  <2>2. Sane(d, 4) /\ Migrated(d, Downgrade_0004, e)
    BY <1>4, <2>1
  <2> DEFINE after == Execution(d, Downgrade_0004)
  <2>3. Committed(d, Downgrade_0004, 2, after) /\ after[2] = e
    BY <1>1, <2>1, <2>2 DEF Committed, Migrated
  <2> HIDE DEF after
  <2>4. Sane(after[2], 3)
    BY <2>2, <2>3, DowngradeEmbeddings
  <2> QED
    BY <1>4, <2>1, <2>3, <2>4
<1>5. CASE r = 10
  <2>1. r + 1 = 11 /\ steps = Downgrade_0011 /\ Len(Downgrade_0011) = 9
    BY <1>5, SpecialSteps, LengthsAre DEF Lengths
  <2>2. Sane(d, 11) /\ Migrated(d, Downgrade_0011, e)
    BY <1>5, <2>1
  <2> DEFINE after == Execution(d, Downgrade_0011)
  <2>3. Committed(d, Downgrade_0011, 9, after) /\ after[9] = e
    BY <1>1, <2>1, <2>2 DEF Committed, Migrated
  <2> HIDE DEF after
  <2>4. Sane(after[9], 10) /\ Served(after[9]) = Served(d)
    BY <2>2, <2>3, DowngradeVersions
  <2> QED
    BY <1>5, <2>1, <2>3, <2>4
<1>6. CASE r = 11
  <2>1. r + 1 = 12 /\ steps = Downgrade_0012 /\ Len(Downgrade_0012) = 8
    BY <1>6, SpecialSteps, LengthsAre DEF Lengths
  <2>2. Sane(d, 12) /\ Migrated(d, Downgrade_0012, e)
    BY <1>6, <2>1
  <2> DEFINE after == Execution(d, Downgrade_0012)
  <2>3. Committed(d, Downgrade_0012, 8, after) /\ after[8] = e
    BY <1>1, <2>1, <2>2 DEF Committed, Migrated
  <2> HIDE DEF after
  <2>4. Sane(after[8], 11) /\ Served(after[8]) = Served(d)
    BY <2>2, <2>3, DowngradeStatus
  <2> QED
    BY <1>6, <2>1, <2>3, <2>4
<1>7. CASE r \notin {1, 2, 3, 10, 11}
  <2> DEFINE s == r + 1
  <2>1. AllNeutral(steps)
    <3>1. r + 1 \in {1, 5, 6, 7, 8, 9, 10, 13, 14, 15, 16}
      BY <1>7
    <3> QED
      BY <3>1, NeutralDowngrades
  <2>2. Alike(s, r) /\ Sane(d, s)
    BY <1>7, SameKeys
  <2> HIDE DEF s
  <2>3. Sane(e, r) /\ Served(e) = Served(d)
    BY <2>1, <2>2, NeutralKeeps
  <2> QED
    BY <2>3 DEF s
<1> QED
  BY <1>2, <1>3, <1>4, <1>5, <1>6, <1>7

-----------------------------------------------------------------------------
\* The database at every step.
MigrationInv == rev \in 0 .. 16 /\ made \in Nat /\ Sane(db, rev)

LEMMA HeadIs == HeadRevision = 16
  BY DEF HeadRevision, Revisions

LEMMA NewChunksAre ==
  ASSUME NEW x \in Docs, NEW v \in Nat, NEW n \in 1 .. 2, made \in Nat
  PROVE  /\ NewChunks(x, v, n) \subseteq ChunkRow /\ IsFiniteSet(NewChunks(x, v, n))
         /\ \A c \in NewChunks(x, v, n) : c.version = v
<1>1. /\ NewChunks(x, v, n) \subseteq ChunkRow
      /\ \A c \in NewChunks(x, v, n) : c.version = v
  BY DEF NewChunks, ChunkRow
<1>2. IsFiniteSet(NewChunks(x, v, n))
  <2> DEFINE row == [i \in 1 .. n |-> [id |-> made + i, doc |-> x, version |-> v, index |-> i]]
             S == 1 .. n
  <2>1. NewChunks(x, v, n) = {row[i] : i \in S}
    BY DEF NewChunks
  <2>2. IsFiniteSet(S)
    BY FS_Interval
  <2> HIDE DEF row, S
  <2> QED
    BY <2>1, <2>2, ImageIsFinite
<1> QED
  BY <1>1, <1>2

\* The steps that change rows change them as Holding says.
Holding(d, chunks, embedded, versions, active) ==
  [d EXCEPT !.chunks = chunks, !.embedded = embedded, !.versions = versions, !.active = active]

LEMMA HoldingIs ==
  ASSUME NEW d, IsDb(d), NEW chunks, NEW embedded, NEW versions, NEW active
  PROVE  LET e == Holding(d, chunks, embedded, versions, active)
         IN  /\ IsDb(e) /\ e.schema = d.schema /\ e.ok = d.ok /\ e.chunks = chunks
             /\ e.embedded = embedded /\ e.versions = versions /\ e.active = active
<1> DEFINE e == Holding(d, chunks, embedded, versions, active)
<1>1. e = [d EXCEPT !.chunks = chunks, !.embedded = embedded, !.versions = versions,
                   !.active = active]
  BY DEF Holding
<1> HIDE DEF e
<1>2. e = [schema |-> d.schema, width |-> d.width, chunks |-> chunks, embedded |-> embedded,
           versions |-> versions, active |-> active, ok |-> d.ok]
  BY <1>1 DEF IsDb
<1>3. /\ IsDb(e) /\ e.schema = d.schema /\ e.ok = d.ok /\ e.chunks = chunks
      /\ e.embedded = embedded /\ e.versions = versions /\ e.active = active
  BY <1>2 DEF IsDb
<1> QED
  BY <1>3 DEF e

LEMMA RowsSane ==
  ASSUME NEW d, NEW r, Sane(d, r), NEW e, IsDb(e), e.schema = d.schema, e.ok = d.ok, Rows(e),
         r >= 11 => Ready(e)
  PROVE  Sane(e, r)
  BY DEF Sane, KeysOf

LEMMA KeysInSchema ==
  ASSUME NEW d, NEW r \in 0 .. 16, Sane(d, r)
  PROVE  /\ Chunks \in d.schema <=> r >= 3
         /\ Embeddings \in d.schema <=> r >= 4
         /\ Versions \in d.schema <=> r >= 11
         /\ Version \in d.schema <=> r >= 11
         /\ Active \in d.schema <=> r >= 11
         /\ Status \in d.schema <=> r >= 12
<1>1. /\ Chunks \notin {Embeddings, Versions, Version, Active, Status}
      /\ Embeddings \notin {Versions, Version, Active, Status}
      /\ Status \notin {Versions, Version, Active}
  BY KeysDiffer
<1>2. /\ Chunks \in KeysAt(r) <=> r >= 3
      /\ Embeddings \in KeysAt(r) <=> r >= 4
      /\ Versions \in KeysAt(r) <=> r >= 11
      /\ Version \in KeysAt(r) <=> r >= 11
      /\ Active \in KeysAt(r) <=> r >= 11
      /\ Status \in KeysAt(r) <=> r >= 12
  BY <1>1 DEF KeysAt, Keys
<1>3. \A k \in Keys : k \in d.schema <=> k \in KeysAt(r)
  BY DEF Sane, KeysOf
<1> QED
  BY <1>2, <1>3 DEF Keys

LEMMA IdsGrow == ASSUME NEW S, NEW T, S \subseteq T PROVE Ids(S) \subseteq Ids(T)
  BY DEF Ids

LEMMA LegacyProcessKeeps ==
  ASSUME MigrationInv, NEW x \in Docs, NEW n \in 1 .. 2, LegacyProcess(x, n)
  PROVE  MigrationInv'
<1> DEFINE chunks == db.chunks \cup NewChunks(x, 1, n)
           e == Holding(db, chunks, db.embedded, db.versions, db.active)
<1>1. IsDb(db) /\ Rows(db) /\ made \in Nat /\ rev \in 3 .. 10 /\ Sane(db, rev)
  BY DEF MigrationInv, Sane, LegacyProcess
<1>2. db' = e /\ rev' = rev /\ made' = made + n
  BY <1>1 DEF LegacyProcess, Holding, IsDb
<1>3. /\ NewChunks(x, 1, n) \subseteq ChunkRow /\ IsFiniteSet(NewChunks(x, 1, n))
      /\ \A c \in NewChunks(x, 1, n) : c.version = 1
  BY <1>1, NewChunksAre
<1>4. chunks \subseteq ChunkRow /\ IsFiniteSet(chunks)
  BY <1>1, <1>3, FS_Union DEF Rows
<1>5. Chunks \in db.schema /\ Version \notin db.schema /\ ~(rev >= 11)
  BY <1>1, KeysInSchema
<1>6. db.embedded \subseteq Ids(chunks)
  BY <1>1, IdsGrow DEF Rows
<1>7. Version \notin db.schema => \A c \in chunks : c.version = 1
  BY <1>1, <1>3 DEF Rows
<1> HIDE DEF chunks, e
<1>8. /\ IsDb(e) /\ e.schema = db.schema /\ e.ok = db.ok /\ e.chunks = chunks
      /\ e.embedded = db.embedded /\ e.versions = db.versions /\ e.active = db.active
  BY <1>1, HoldingIs DEF e
<1>9. Rows(e)
  BY <1>1, <1>4, <1>5, <1>6, <1>7, <1>8 DEF Rows
<1>10. Sane(e, rev)
  BY <1>1, <1>5, <1>8, <1>9, RowsSane
<1> QED
  BY <1>1, <1>2, <1>10 DEF MigrationInv

LEMMA LegacyEmbedKeeps ==
  ASSUME MigrationInv, NEW x \in Docs, LegacyEmbed(x)
  PROVE  MigrationInv'
<1> DEFINE embedded == db.embedded \cup Ids({c \in db.chunks : c.doc = x})
           e == Holding(db, db.chunks, embedded, db.versions, db.active)
<1>1. IsDb(db) /\ Rows(db) /\ made \in Nat /\ rev \in 4 .. 10 /\ Sane(db, rev)
  BY DEF MigrationInv, Sane, LegacyEmbed
<1>2. db' = e /\ rev' = rev /\ made' = made
  BY <1>1 DEF LegacyEmbed, Holding, IsDb
<1>3. Embeddings \in db.schema /\ ~(rev >= 11)
  BY <1>1, KeysInSchema
<1>4. embedded \subseteq Ids(db.chunks)
  <2>1. {c \in db.chunks : c.doc = x} \subseteq db.chunks
    OBVIOUS
  <2> QED
    BY <1>1, <2>1, IdsGrow DEF Rows
<1> HIDE DEF embedded, e
<1>5. /\ IsDb(e) /\ e.schema = db.schema /\ e.ok = db.ok /\ e.chunks = db.chunks
      /\ e.embedded = embedded /\ e.versions = db.versions /\ e.active = db.active
  BY <1>1, HoldingIs DEF e
<1>6. Rows(e)
  BY <1>1, <1>3, <1>4, <1>5 DEF Rows
<1>7. Sane(e, rev)
  BY <1>1, <1>3, <1>5, <1>6, RowsSane
<1> QED
  BY <1>1, <1>2, <1>7 DEF MigrationInv

LEMMA AtHead ==
  ASSUME MigrationInv, rev = HeadRevision
  PROVE  /\ rev = 16 /\ IsDb(db) /\ Rows(db) /\ Sane(db, rev) /\ Ready(db) /\ made \in Nat
         /\ Chunks \in db.schema /\ Embeddings \in db.schema /\ Versions \in db.schema
         /\ Version \in db.schema /\ Active \in db.schema /\ Status \in db.schema
<1>1. rev = 16 /\ IsDb(db) /\ Rows(db) /\ Sane(db, rev) /\ Ready(db) /\ made \in Nat
  BY HeadIs DEF MigrationInv, Sane
<1> QED
  BY <1>1, KeysInSchema

\* What a step at the last revision has to leave in order.
LEMMA HeadKeeps ==
  ASSUME MigrationInv, rev = HeadRevision,
         NEW chunks, NEW embedded, NEW versions, NEW active,
         chunks \subseteq ChunkRow, IsFiniteSet(chunks), embedded \subseteq Ids(chunks),
         versions \subseteq VersionRow, IsFiniteSet(versions), active \in [Docs -> Nat],
         \A x \in Docs : active[x] > 0 =>
           [doc |-> x, version |-> active[x], status |-> "ready"] \in versions
  PROVE  Sane(Holding(db, chunks, embedded, versions, active), rev)
<1> DEFINE e == Holding(db, chunks, embedded, versions, active)
<1>1. /\ rev = 16 /\ IsDb(db) /\ Rows(db) /\ Sane(db, rev)
      /\ Chunks \in db.schema /\ Embeddings \in db.schema /\ Versions \in db.schema
      /\ Version \in db.schema /\ Active \in db.schema /\ Status \in db.schema
  BY AtHead
<1>2. /\ IsDb(e) /\ e.schema = db.schema /\ e.ok = db.ok /\ e.chunks = chunks
      /\ e.embedded = embedded /\ e.versions = versions /\ e.active = active
  BY <1>1, HoldingIs
<1> HIDE DEF e
<1>3. Rows(e) /\ Ready(e)
  BY <1>1, <1>2 DEF Rows, Ready
<1>4. Sane(e, rev)
  BY <1>1, <1>2, <1>3, RowsSane
<1> QED
  BY <1>4 DEF e

LEMMA StageVersionKeeps ==
  ASSUME MigrationInv, NEW x \in Docs, NEW n \in 1 .. 2, StageVersion(x, n)
  PROVE  MigrationInv'
<1> DEFINE next == 1 + Cardinality(VersionsOf(x))
           row == [doc |-> x, version |-> next, status |-> "processing"]
           chunks == db.chunks \cup NewChunks(x, next, n)
           versions == db.versions \cup {row}
<1>1. rev = HeadRevision
  BY DEF StageVersion
<1>2. IsDb(db) /\ Rows(db) /\ Ready(db) /\ made \in Nat
  BY <1>1, AtHead
<1>3. next \in Nat
  <2>1. VersionsOf(x) \in SUBSET db.versions /\ IsFiniteSet(db.versions)
    BY <1>2 DEF VersionsOf, Rows
  <2>2. Cardinality(VersionsOf(x)) \in Nat
    BY <2>1, FS_Subset, FS_CardinalityType
  <2> QED
    BY <2>2
<1>4. db' = Holding(db, chunks, db.embedded, versions, db.active) /\ rev' = rev /\ made' = made + n
  BY <1>2 DEF StageVersion, Holding, IsDb
<1> HIDE DEF next
<1>5. NewChunks(x, next, n) \subseteq ChunkRow /\ IsFiniteSet(NewChunks(x, next, n))
  BY <1>2, <1>3, NewChunksAre
<1>6. chunks \subseteq ChunkRow /\ IsFiniteSet(chunks)
  BY <1>2, <1>5, FS_Union DEF Rows
<1>7. versions \subseteq VersionRow /\ IsFiniteSet(versions)
  <2>1. row \in VersionRow
    BY <1>3 DEF VersionRow
  <2> HIDE DEF row
  <2> QED
    BY <1>2, <2>1, FS_AddElement DEF Rows
<1>8. db.embedded \subseteq Ids(chunks)
  BY <1>2, IdsGrow DEF Rows
<1>9. /\ db.active \in [Docs -> Nat]
      /\ \A y \in Docs : db.active[y] > 0 =>
           [doc |-> y, version |-> db.active[y], status |-> "ready"] \in versions
  BY <1>2 DEF Ready, Rows
<1> HIDE DEF chunks, versions
<1>10. Sane(Holding(db, chunks, db.embedded, versions, db.active), rev)
  BY <1>1, <1>6, <1>7, <1>8, <1>9, HeadKeeps
<1> QED
  BY <1>2, <1>4, <1>10 DEF MigrationInv

\* A version whose status changes, other than one that was ready.
LEMMA RestatedIs ==
  ASSUME NEW S, S \subseteq VersionRow, IsFiniteSet(S), NEW v \in S,
         NEW status \in {"processing", "ready", "failed"}
  PROVE  LET T == (S \ {v}) \cup {[v EXCEPT !.status = status]}
         IN  /\ T \subseteq VersionRow /\ IsFiniteSet(T)
             /\ v.status # "ready" => \A w \in S : w.status = "ready" => w \in T
<1> DEFINE T == (S \ {v}) \cup {[v EXCEPT !.status = status]}
<1>1. [v EXCEPT !.status = status] \in VersionRow
  BY DEF VersionRow
<1>2. IsFiniteSet(T)
  BY FS_RemoveElement, FS_AddElement
<1> QED
  BY <1>1, <1>2

LEMMA RestateKeeps ==
  ASSUME MigrationInv, rev = HeadRevision, NEW v \in db.versions, v.status # "ready",
         NEW status \in {"processing", "failed"},
         db' = [db EXCEPT !.versions = (@ \ {v}) \cup {[v EXCEPT !.status = status]}],
         UNCHANGED <<rev, made>>
  PROVE  MigrationInv'
<1> DEFINE versions == (db.versions \ {v}) \cup {[v EXCEPT !.status = status]}
<1>1. IsDb(db) /\ Rows(db) /\ Ready(db) /\ made \in Nat
  BY AtHead
<1>2. db' = Holding(db, db.chunks, db.embedded, versions, db.active)
  BY <1>1 DEF Holding, IsDb
<1>3. /\ versions \subseteq VersionRow /\ IsFiniteSet(versions)
      /\ \A w \in db.versions : w.status = "ready" => w \in versions
  BY <1>1, RestatedIs DEF Rows
<1> HIDE DEF versions
<1>4. \A y \in Docs : db.active[y] > 0 =>
        [doc |-> y, version |-> db.active[y], status |-> "ready"] \in versions
  BY <1>1, <1>3 DEF Ready
<1>5. Sane(Holding(db, db.chunks, db.embedded, versions, db.active), rev)
  BY <1>1, <1>3, <1>4, HeadKeeps DEF Rows
<1> QED
  BY <1>1, <1>2, <1>5 DEF MigrationInv

LEMMA PromoteVersionKeeps ==
  ASSUME MigrationInv, NEW x \in Docs, PromoteVersion(x)
  PROVE  MigrationInv'
<1>1. rev = HeadRevision /\ UNCHANGED <<rev, made>>
  BY DEF PromoteVersion
<1>2. PICK v \in VersionsOf(x) :
        /\ v.status = "processing"
        /\ db' = [db EXCEPT
              !.versions = (@ \ {v}) \cup {[v EXCEPT !.status = "ready"]},
              !.embedded = @ \cup Ids({c \in db.chunks : c.doc = x /\ c.version = v.version}),
              !.active[x] = v.version]
  BY DEF PromoteVersion
<1>3. IsDb(db) /\ Rows(db) /\ Ready(db) /\ made \in Nat
  BY <1>1, AtHead
<1>4. v \in db.versions /\ v.doc = x /\ v \in VersionRow
  BY <1>2, <1>3 DEF VersionsOf, Rows
<1> DEFINE versions == (db.versions \ {v}) \cup {[v EXCEPT !.status = "ready"]}
           embedded == db.embedded \cup Ids({c \in db.chunks : c.doc = x /\ c.version = v.version})
           active == [db.active EXCEPT ![x] = v.version]
<1>5. db' = Holding(db, db.chunks, embedded, versions, active)
  BY <1>2, <1>3 DEF Holding, IsDb
<1>6. /\ versions \subseteq VersionRow /\ IsFiniteSet(versions)
      /\ \A w \in db.versions : w.status = "ready" => w \in versions
  BY <1>2, <1>3, <1>4, RestatedIs DEF Rows
<1>7. embedded \subseteq Ids(db.chunks)
  <2>1. {c \in db.chunks : c.doc = x /\ c.version = v.version} \subseteq db.chunks
    OBVIOUS
  <2> QED
    BY <1>3, <2>1, IdsGrow DEF Rows
<1>8. active \in [Docs -> Nat]
  BY <1>3, <1>4 DEF Rows, VersionRow
<1>9. \A y \in Docs : active[y] > 0 =>
        [doc |-> y, version |-> active[y], status |-> "ready"] \in versions
  <2> SUFFICES ASSUME NEW y \in Docs, active[y] > 0
               PROVE  [doc |-> y, version |-> active[y], status |-> "ready"] \in versions
    OBVIOUS
  <2>1. CASE y = x
    <3>1. active[y] = v.version
      BY <1>3, <2>1 DEF Rows
    <3>2. [v EXCEPT !.status = "ready"] = [doc |-> x, version |-> v.version, status |-> "ready"]
      BY <1>4 DEF VersionRow
    <3> QED
      BY <2>1, <3>1, <3>2
  <2>2. CASE y # x
    <3>1. active[y] = db.active[y]
      BY <1>3, <2>2 DEF Rows
    <3>2. [doc |-> y, version |-> db.active[y], status |-> "ready"] \in db.versions
      BY <1>3, <3>1 DEF Ready
    <3> QED
      BY <1>6, <3>1, <3>2
  <2> QED
    BY <2>1, <2>2
<1> HIDE DEF versions, embedded, active
<1>10. Sane(Holding(db, db.chunks, embedded, versions, active), rev)
  BY <1>1, <1>3, <1>6, <1>7, <1>8, <1>9, HeadKeeps DEF Rows
<1> QED
  BY <1>1, <1>3, <1>5, <1>10 DEF MigrationInv

LEMMA RowKeeps == MigrationInv /\ RowStep => MigrationInv' /\ rev' = rev
<1> SUFFICES ASSUME MigrationInv, RowStep PROVE MigrationInv' /\ rev' = rev
  OBVIOUS
<1>1. PICK x \in Docs :
        \/ \E n \in 1 .. 2 : LegacyProcess(x, n) \/ StageVersion(x, n)
        \/ LegacyEmbed(x)
        \/ RetryVersion(x)
        \/ PromoteVersion(x)
        \/ FailVersion(x)
  BY DEF RowStep
<1>2. rev' = rev
  BY <1>1 DEF LegacyProcess, StageVersion, LegacyEmbed, RetryVersion, PromoteVersion, FailVersion
<1>3. CASE \E n \in 1 .. 2 : LegacyProcess(x, n)
  BY <1>2, <1>3, LegacyProcessKeeps
<1>4. CASE \E n \in 1 .. 2 : StageVersion(x, n)
  BY <1>2, <1>4, StageVersionKeeps
<1>5. CASE LegacyEmbed(x)
  BY <1>2, <1>5, LegacyEmbedKeeps
<1>6. CASE RetryVersion(x)
  <2>1. PICK v \in VersionsOf(x) :
          /\ v.status = "failed"
          /\ db' = [db EXCEPT !.versions = (@ \ {v}) \cup {[v EXCEPT !.status = "processing"]}]
    BY <1>6 DEF RetryVersion
  <2>2. v \in db.versions /\ rev = HeadRevision /\ UNCHANGED <<rev, made>>
    BY <1>6 DEF RetryVersion, VersionsOf
  <2> QED
    BY <1>2, <2>1, <2>2, RestateKeeps
<1>7. CASE PromoteVersion(x)
  BY <1>2, <1>7, PromoteVersionKeeps
<1>8. CASE FailVersion(x)
  <2>1. PICK v \in VersionsOf(x) :
          /\ v.status = "processing"
          /\ db' = [db EXCEPT !.versions = (@ \ {v}) \cup {[v EXCEPT !.status = "failed"]}]
    BY <1>8 DEF FailVersion
  <2>2. v \in db.versions /\ rev = HeadRevision /\ UNCHANGED <<rev, made>>
    BY <1>8 DEF FailVersion, VersionsOf
  <2> QED
    BY <1>2, <2>1, <2>2, RestateKeeps
<1> QED
  BY <1>1, <1>2, <1>3, <1>4, <1>5, <1>6, <1>7, <1>8

\* A migration is committed, or changes nothing.
Survives == rev' # rev /\ rev >= 4 /\ rev' >= 4 => Served(db') = Served(db)

LEMMA MigrateIs ==
  ASSUME NEW steps, NEW target, Migrate(steps, target)
  PROVE  /\ made' = made
         /\ \/ Migrated(db, steps, db') /\ rev' = target
            \/ UNCHANGED <<db, rev>>
<1> DEFINE after == Execution(db, steps)[Len(steps)]
<1>1. /\ made' = made
      /\ \/ after.ok /\ db' = after /\ rev' = target
         \/ UNCHANGED <<db, rev>>
  BY DEF Migrate
<1> HIDE DEF after
<1>2. ASSUME after.ok, db' = after PROVE Migrated(db, steps, db')
  BY <1>2 DEF Migrated, after
<1> QED
  BY <1>1, <1>2

LEMMA UpgradeStepKeeps == MigrationInv /\ Upgrade => MigrationInv' /\ Survives
<1> SUFFICES ASSUME MigrationInv, Upgrade PROVE MigrationInv' /\ Survives
  OBVIOUS
<1> DEFINE steps == UpgradeSteps[rev + 1]
           e == db'
<1>1. rev \in 0 .. 15 /\ rev + 1 \in 0 .. 16 /\ made \in Nat /\ Sane(db, rev)
  BY HeadIs DEF MigrationInv, Upgrade
<1>2. made' = made /\ \/ Migrated(db, steps, e) /\ rev' = rev + 1
                      \/ UNCHANGED <<db, rev>>
  BY MigrateIs DEF Upgrade
<1>3. CASE UNCHANGED <<db, rev>>
  BY <1>1, <1>2, <1>3 DEF MigrationInv, Survives
<1>4. CASE Migrated(db, steps, e) /\ rev' = rev + 1
  <2>1. Migrated(db, steps, e) /\ steps = UpgradeSteps[rev + 1]
    BY <1>4
  <2> HIDE DEF steps, e
  <2>2. Sane(e, rev + 1) /\ (rev >= 4 => Served(e) = Served(db))
    BY <1>1, <2>1, UpgradeKeeps
  <2> QED
    BY <1>1, <1>2, <1>4, <2>2 DEF MigrationInv, Survives, e
<1> QED
  BY <1>2, <1>3, <1>4

LEMMA DowngradeStepKeeps == MigrationInv /\ Downgrade => MigrationInv' /\ Survives
<1> SUFFICES ASSUME MigrationInv, Downgrade PROVE MigrationInv' /\ Survives
  OBVIOUS
<1> DEFINE r == rev - 1
           steps == DowngradeSteps[rev]
           e == db'
<1>1. /\ rev \in 0 .. 16 /\ r \in 0 .. 15 /\ r \in 0 .. 16 /\ rev = r + 1
      /\ made \in Nat /\ Sane(db, rev)
  BY DEF MigrationInv, Downgrade
<1>2. made' = made /\ \/ Migrated(db, steps, e) /\ rev' = r
                      \/ UNCHANGED <<db, rev>>
  BY MigrateIs DEF Downgrade
<1>3. CASE UNCHANGED <<db, rev>>
  BY <1>1, <1>2, <1>3 DEF MigrationInv, Survives
<1>4. CASE Migrated(db, steps, e) /\ rev' = r
  <2>1. Migrated(db, steps, e) /\ steps = DowngradeSteps[rev]
    BY <1>4
  <2> HIDE DEF steps, e, r
  <2>2. Sane(db, r + 1) /\ steps = DowngradeSteps[r + 1]
    BY <1>1, <2>1
  <2>3. Sane(e, r) /\ (r >= 4 => Served(e) = Served(db))
    BY <1>1, <2>1, <2>2, DowngradeKeeps
  <2> QED
    BY <1>1, <1>2, <1>4, <2>3 DEF MigrationInv, Survives, e
<1> QED
  BY <1>2, <1>3, <1>4

LEMMA MigrationKeeps == MigrationInv /\ [Next]_vars => MigrationInv' /\ Survives
<1> SUFFICES ASSUME MigrationInv, [Next]_vars PROVE MigrationInv' /\ Survives
  OBVIOUS
<1>1. CASE UNCHANGED migrationVars
  BY <1>1 DEF migrationVars, MigrationInv, Survives
<1>2. CASE MigrationStep
  BY <1>2, UpgradeStepKeeps, DowngradeStepKeeps DEF MigrationStep
<1>3. CASE RowStep
  BY <1>3, RowKeeps DEF Survives
<1> QED
  BY <1>1, <1>2, <1>3 DEF Next, vars

LEMMA MigrationStarts == ToolInit => MigrationInv
<1> SUFFICES ASSUME ToolInit PROVE MigrationInv
  OBVIOUS
<1>1. /\ rev = 0 /\ made = 0
      /\ db = [schema |-> {}, width |-> 32, chunks |-> {}, embedded |-> {}, versions |-> {},
               active |-> [x \in Docs |-> 0], ok |-> TRUE]
  BY DEF ToolInit, Init
<1>2. IsDb(db) /\ db.ok = TRUE /\ KeysOf(db) = {}
  BY <1>1 DEF IsDb, KeysOf
<1>3. Rows(db)
  BY <1>1, FS_EmptySet DEF Rows, Ids
<1>4. rev \in 0 .. 16 /\ made \in Nat /\ ~(rev >= 11) /\ KeysAt(rev) = {}
  BY <1>1, KeysAtAre
<1> QED
  BY <1>2, <1>3, <1>4 DEF MigrationInv, Sane

\* The rows stay in order whatever is migrated up and down between whatever
\* the releases do with them.
THEOREM MigrationInvariance == Spec => []MigrationInv
  BY MigrationStarts, MigrationKeeps, PTL DEF Spec

\* After revision 0012 a document's active version is one that is ready, for
\* any documents and chunks, and after any sequence of migrations.
THEOREM ActiveVersionsReady == Spec => []ActiveIsReady
<1>1. MigrationInv => ActiveIsReady
  BY DEF MigrationInv, Sane, Ready, ActiveIsReady
<1> QED
  BY <1>1, MigrationInvariance, PTL

\* No migration between revisions that have embeddings changes what is served:
\* not the one that gives old documents versions, nor the lossy way back.
THEOREM MigrationsKeepServed == Spec => ServedSurvives
<1>1. MigrationInv /\ [Next]_vars => [Survives]_migrationVars
  BY MigrationKeeps
<1> QED
  BY <1>1, MigrationInvariance, PTL DEF Spec, ServedSurvives, Survives

-----------------------------------------------------------------------------
\* What the approximate result of a command lacks has a cause.
Explained(c) ==
  \A lost \in c.exact \ c.approximate :
    \/ lost \notin c.reached
    \/ \E found \in c.approximate \ c.exact :
         \/ found \notin c.scope
         \/ ~Nearer(c.distance, lost, found) /\ ~Nearer(c.distance, found, lost)

\* A query takes rows it saw, as many as it may, none behind one left out.
Taken(result, rows, distance) ==
  /\ result \subseteq rows /\ IsFiniteSet(result)
  /\ Cardinality(result) \in Nat /\ Cardinality(result) <= TopK
  /\ result # rows => Cardinality(result) = TopK
  /\ \A near \in result, far \in rows \ result : ~Nearer(distance, far, near)

\* Between its probes a command holds what the exact query took of its scope;
\* before and after them, nothing is lost without a cause.
Probed(c) ==
  /\ c.pc = "approximate" => Taken(c.exact, c.scope, c.distance)
  /\ c.pc \in {"inspect", "sample", "exact", "report"} => Explained(c)

ProbeInv == \A o \in Operators : Probed(cli[o])

LEMMA QueryTakes ==
  ASSUME NEW exact, NEW rows, IsFiniteSet(rows), NEW distance,
         NEW result \in RetrievalQuery(exact, rows, distance)
  PROVE  Taken(result, rows, distance)
<1>1. /\ result \in SUBSET rows /\ Cardinality(result) = Least(TopK, Cardinality(rows))
      /\ \A near \in result, far \in rows \ result : ~Nearer(distance, far, near)
  BY DEF RetrievalQuery
<1>2. IsFiniteSet(result) /\ (Cardinality(result) = Cardinality(rows) => result = rows)
  BY <1>1, FS_Subset
<1>3. Cardinality(rows) \in Nat /\ Cardinality(result) \in Nat /\ TopK \in Nat
  BY <1>2, FS_CardinalityType, HnswAssumption
<1>4. Least(TopK, Cardinality(rows)) <= TopK
      /\ (Least(TopK, Cardinality(rows)) = TopK \/ Least(TopK, Cardinality(rows)) = Cardinality(rows))
  BY <1>3 DEF Least
<1> QED
  BY <1>1, <1>2, <1>3, <1>4 DEF Taken

\* A chunk that the index led to and the result leaves out has lost its place to
\* one the exact query did not return.
LEMMA LossIsExplained ==
  ASSUME NEW scope, NEW reached, NEW distance, NEW exact, NEW result, NEW lost,
         Taken(exact, scope, distance), Taken(result, reached, distance),
         lost \in exact \ result, lost \in reached
  PROVE  \E found \in result \ exact :
           \/ found \notin scope
           \/ ~Nearer(distance, lost, found) /\ ~Nearer(distance, found, lost)
<1>1. /\ exact \subseteq scope /\ IsFiniteSet(exact)
      /\ Cardinality(exact) \in Nat /\ Cardinality(exact) <= TopK
      /\ \A near \in exact, far \in scope \ exact : ~Nearer(distance, far, near)
  BY DEF Taken
<1>2. /\ Cardinality(result) = TopK
      /\ \A near \in result, far \in reached \ result : ~Nearer(distance, far, near)
  BY DEF Taken
<1>3. ~(result \subseteq exact)
  <2> SUFFICES ASSUME result \subseteq exact PROVE FALSE
    OBVIOUS
  <2>1. /\ Cardinality(result) <= Cardinality(exact)
        /\ Cardinality(result) = Cardinality(exact) => result = exact
    BY <1>1, FS_Subset
  <2>2. TopK \in Nat
    BY HnswAssumption
  <2>3. Cardinality(result) = Cardinality(exact)
    BY <1>1, <1>2, <2>1, <2>2
  <2> QED
    BY <2>1, <2>3
<1>4. PICK found \in result \ exact : TRUE
  BY <1>3
<1>5. ~Nearer(distance, lost, found)
  BY <1>2, <1>4
<1>6. found \in scope => ~Nearer(distance, found, lost)
  BY <1>1, <1>4
<1> QED
  BY <1>4, <1>5, <1>6

LEMMA NothingProbed ==
  ASSUME NEW command, NEW pc, pc # "approximate"
  PROVE  Probed(At(command, pc))
BY DEF Probed, Explained, At

LEMMA ServedIsFinite == MigrationInv => IsFiniteSet(Served(db))
<1> SUFFICES ASSUME MigrationInv PROVE IsFiniteSet(Served(db))
  OBVIOUS
<1>1. IsFiniteSet(db.chunks) /\ db.embedded \subseteq Ids(db.chunks)
  BY DEF MigrationInv, Sane, Rows
<1>2. IsFiniteSet(Ids(db.chunks))
  <2> DEFINE id == [c \in db.chunks |-> c.id]
  <2>1. IsFiniteSet({id[c] : c \in db.chunks})
    BY <1>1, ImageIsFinite
  <2>2. {id[c] : c \in db.chunks} = Ids(db.chunks)
    BY DEF Ids
  <2> QED
    BY <2>1, <2>2
<1>3. Served(db) \in SUBSET Ids(db.chunks)
  BY <1>1 DEF Served
<1> QED
  BY <1>2, <1>3, FS_Subset

\* A step of one command leaves the others as they were.
LEMMA ProbeSteps ==
  ASSUME ToolInv, ProbeInv, NEW o \in Operators, NEW c, Probed(c),
         cli' = [cli EXCEPT ![o] = c]
  PROVE  ProbeInv'
BY DEF ToolInv, ProbeInv

LEMMA GoToProbes ==
  ASSUME ToolInv, ProbeInv, NEW o \in Operators, NEW pc, GoTo(o, pc),
         pc \notin {"approximate", "inspect", "exact"},
         pc = "sample" => cli[o].pc = "inspect",
         pc = "report" => cli[o].pc = "exact"
  PROVE  ProbeInv'
<1>1. CASE pc \in Ended
  <2>1. cli' = [cli EXCEPT ![o] = At("none", pc)]
    BY <1>1 DEF GoTo
  <2> QED
    BY <2>1, NothingProbed, ProbeSteps
<1>2. CASE pc \notin Ended
  <2> DEFINE c == [cli[o] EXCEPT !.pc = pc]
  <2>1. cli' = [cli EXCEPT ![o] = c]
    BY <1>2 DEF GoTo
  <2>2. Probed(cli[o]) /\ Sound(cli[o])
    BY DEF ProbeInv, ToolInv
  <2>3. /\ c.pc = pc /\ c.exact = cli[o].exact /\ c.approximate = cli[o].approximate
        /\ c.reached = cli[o].reached /\ c.scope = cli[o].scope
        /\ c.distance = cli[o].distance
    BY <2>2 DEF Sound
  <2> HIDE DEF c
  <2>4. pc \in {"sample", "report"} => Explained(c)
    BY <2>2, <2>3 DEF Probed, Explained
  <2>5. Probed(c)
    BY <2>3, <2>4 DEF Probed
  <2> QED
    BY <2>1, <2>5, ProbeSteps
<1> QED
  BY <1>1, <1>2

LEMMA ProbeKeeps == MigrationInv /\ ToolInv /\ ProbeInv /\ [Next]_vars => ProbeInv'
<1> SUFFICES ASSUME MigrationInv, ToolInv, ProbeInv, [Next]_vars PROVE ProbeInv'
  OBVIOUS
<1>1. CASE cli' = cli
  BY <1>1 DEF ProbeInv
<1>2. ASSUME NEW o \in Operators, Start(o) PROVE ProbeInv'
  <2>1. PICK command, pc : pc # "approximate" /\ cli' = [cli EXCEPT ![o] = At(command, pc)]
    BY <1>2 DEF Start
  <2> QED
    BY <2>1, NothingProbed, ProbeSteps
<1>3. ASSUME NEW o \in Operators,
             \/ Inspect(o) \/ Create(o) \/ BuildEnds(o) \/ Verify(o) \/ Lost(o) \/ Report(o)
      PROVE  ProbeInv'
  <2>1. CASE Inspect(o)
    <3> DEFINE pc == IF IndexState = "error" THEN "error" ELSE
                     CASE cli[o].command = "status"    -> "ok"
                       [] cli[o].command = "build"     -> IF IndexState = "none" THEN "create" ELSE "ok"
                       [] cli[o].command = "benchmark" -> IF IndexState = "none" THEN "error" ELSE "sample"
    <3>1. GoTo(o, pc) /\ cli[o].pc = "inspect"
      BY <2>1 DEF Inspect
    <3>2. cli[o].command \in {"status", "build", "benchmark"}
      BY <3>1 DEF ToolInv, Sound
    <3>3. pc \in {"error", "ok", "create", "sample"}
      <4>1. CASE IndexState = "error"
        BY <4>1
      <4>2. CASE IndexState # "error" /\ cli[o].command = "status"
        BY <4>2
      <4>3. CASE IndexState # "error" /\ cli[o].command = "build"
        BY <4>3
      <4>4. CASE IndexState # "error" /\ cli[o].command = "benchmark"
        BY <4>4
      <4> QED
        BY <3>2, <4>1, <4>2, <4>3, <4>4
    <3> HIDE DEF pc
    <3> QED
      BY <3>1, <3>3, GoToProbes
  <2>2. CASE ~Inspect(o)
    <3>1. \E pc \in {"error", "ok", "below", "creating", "verify"} : GoTo(o, pc)
      BY <1>3, <2>2 DEF Create, BuildEnds, Verify, Lost, Report
    <3> QED
      BY <3>1, GoToProbes
  <2> QED
    BY <2>1, <2>2
<1>4. ASSUME NEW o \in Operators, Sample(o) PROVE ProbeInv'
  <2>1. CASE GoTo(o, "error")
    BY <2>1, GoToProbes
  <2>2. CASE ~GoTo(o, "error")
    <3>1. PICK vectors : cli' = [cli EXCEPT ![o].pc = "exact", ![o].left = vectors]
      BY <1>4, <2>2 DEF Sample
    <3> DEFINE c == [cli[o] EXCEPT !.pc = "exact", !.left = vectors]
    <3>2. cli' = [cli EXCEPT ![o] = c]
      BY <3>1 DEF ToolInv
    <3>3. cli[o].pc = "sample" /\ Probed(cli[o]) /\ Sound(cli[o])
      BY <1>4 DEF Sample, ProbeInv, ToolInv
    <3>4. /\ c.pc = "exact" /\ c.exact = cli[o].exact /\ c.approximate = cli[o].approximate
          /\ c.reached = cli[o].reached /\ c.scope = cli[o].scope
          /\ c.distance = cli[o].distance
      BY <3>3 DEF Sound
    <3> HIDE DEF c
    <3>5. Probed(c)
      BY <3>3, <3>4 DEF Probed, Explained
    <3> QED
      BY <3>2, <3>5, ProbeSteps
  <2> QED
    BY <2>1, <2>2
<1>5. ASSUME NEW o \in Operators, ExactProbe(o) PROVE ProbeInv'
  <2>1. CASE GoTo(o, "error")
    BY <2>1, GoToProbes
  <2>2. CASE ~GoTo(o, "error")
    <3>1. PICK distance, result :
            /\ result \in RetrievalQuery(TRUE, Served(db), distance)
            /\ cli' = [cli EXCEPT ![o].pc = "approximate", ![o].distance = distance,
                               ![o].scope = Served(db), ![o].exact = result,
                               ![o].reached = {}, ![o].approximate = {}]
      BY <1>5, <2>2 DEF ExactProbe
    <3> DEFINE c == [cli[o] EXCEPT !.pc = "approximate", !.distance = distance,
                                   !.scope = Served(db), !.exact = result,
                                   !.reached = {}, !.approximate = {}]
    <3>2. cli' = [cli EXCEPT ![o] = c]
      BY <3>1 DEF ToolInv
    <3>3. Sound(cli[o])
      BY DEF ToolInv
    <3>4. /\ c.pc = "approximate" /\ c.scope = Served(db) /\ c.exact = result
          /\ c.distance = distance
      BY <3>3 DEF Sound
    <3> HIDE DEF c
    <3>5. Taken(result, Served(db), distance)
      BY <3>1, ServedIsFinite, QueryTakes
    <3>6. Probed(c)
      BY <3>4, <3>5 DEF Probed
    <3> QED
      BY <3>2, <3>6, ProbeSteps
  <2> QED
    BY <2>1, <2>2
<1>6. ASSUME NEW o \in Operators, ApproximateProbe(o) PROVE ProbeInv'
  <2>1. CASE GoTo(o, "error")
    BY <2>1, GoToProbes
  <2>2. CASE ~GoTo(o, "error")
    <3>1. PICK reached, result :
            /\ reached \in SUBSET Served(db)
            /\ result \in RetrievalQuery(FALSE, reached, cli[o].distance)
            /\ cli' = [cli EXCEPT
              ![o].pc = IF cli[o].left = 1 THEN "report" ELSE "exact",
              ![o].left = @ - 1, ![o].reached = reached, ![o].approximate = result,
              ![o].perfect = @ /\ cli[o].exact \subseteq result]
      BY <1>6, <2>2 DEF ApproximateProbe
    <3> DEFINE c == [cli[o] EXCEPT
                       !.pc = IF cli[o].left = 1 THEN "report" ELSE "exact",
                       !.left = @ - 1, !.reached = reached, !.approximate = result,
                       !.perfect = @ /\ cli[o].exact \subseteq result]
    <3>2. cli' = [cli EXCEPT ![o] = c]
      BY <3>1 DEF ToolInv
    <3>3. cli[o].pc = "approximate" /\ Probed(cli[o]) /\ Sound(cli[o])
      BY <1>6 DEF ApproximateProbe, ProbeInv, ToolInv
    <3>4. /\ c.pc \in {"report", "exact"} /\ c.exact = cli[o].exact /\ c.approximate = result
          /\ c.reached = reached /\ c.scope = cli[o].scope
          /\ c.distance = cli[o].distance
      BY <3>3 DEF Sound
    <3> HIDE DEF c
    <3>5. Taken(result, reached, cli[o].distance)
      <4>1. IsFiniteSet(reached)
        BY <3>1, ServedIsFinite, FS_Subset
      <4> QED
        BY <3>1, <4>1, QueryTakes
    <3>6. Taken(cli[o].exact, cli[o].scope, cli[o].distance)
      BY <3>3 DEF Probed
    <3>7. ASSUME NEW lost \in cli[o].exact \ result, lost \in reached
          PROVE  \E found \in result \ cli[o].exact :
                   \/ found \notin cli[o].scope
                   \/ ~Nearer(cli[o].distance, lost, found) /\ ~Nearer(cli[o].distance, found, lost)
      BY <3>5, <3>6, <3>7, LossIsExplained
    <3>8. Explained(c)
      BY <3>4, <3>7 DEF Explained
    <3>9. Probed(c)
      BY <3>4, <3>8 DEF Probed
    <3> QED
      BY <3>2, <3>9, ProbeSteps
  <2> QED
    BY <2>1, <2>2
<1> QED
  BY <1>1, <1>2, <1>3, <1>4, <1>5, <1>6
  DEF Next, ToolStep, OrphanEnds, MigrationStep, toolVars, vars

LEMMA ProbeStarts == ToolInit => ProbeInv
  BY NothingProbed DEF ToolInit, ProbeInv, Idle

\* A chunk that an approximate query leaves out of the exact result was not led to
\* by the index, or stands back for one that became active between the queries or
\* is equally near: for any distances, limits, operators, activations and
\* migrations.
THEOREM LossesHaveCauses == Spec => []LossHasACause
<1>1. ProbeInv => LossHasACause
  BY DEF ProbeInv, Probed, Explained, LossHasACause
<1> QED
  BY <1>1, ProbeStarts, ProbeKeeps, MigrationInvariance, ToolInvariance, PTL DEF Spec

-----------------------------------------------------------------------------
\* The schema at each revision.  Declared is the schema of the last revision with
\* the one constraint that migration 0011 replaces.  A declared object is there
\* since the revision that created its table, or since a later one that added it.
OldUnique == <<"document_chunks", "constraint", "uq_document_chunks_document_index">>

Declared == TargetMetadata \cup {OldUnique}

TableNames ==
  {"knowledge_bases", "documents", "document_chunks", "chunk_embeddings", "retrieval_traces",
   "retrieval_trace_results", "evaluation_datasets", "evaluation_cases", "evaluation_judgments",
   "evaluation_runs", "evaluation_run_cases", "evaluation_baselines",
   "evaluation_baseline_promotions", "document_chunk_versions"}

Born(t) ==
  CASE t = "knowledge_bases" -> 1
    [] t = "documents" -> 2
    [] t = "document_chunks" -> 3
    [] t = "chunk_embeddings" -> 4
    [] t \in {"retrieval_traces", "retrieval_trace_results"} -> 6
    [] t \in {"evaluation_datasets", "evaluation_cases", "evaluation_judgments"} -> 7
    [] t \in {"evaluation_runs", "evaluation_run_cases"} -> 8
    [] t = "evaluation_baselines" -> 9
    [] t = "evaluation_baseline_promotions" -> 10
    [] OTHER -> 11

SearchObjects ==
  {<<"document_chunks", "column", "search_vector">>,
   <<"document_chunks", "index", "ix_document_chunks_search_vector">>}

VersionObjects ==
  {<<"documents", "column", "active_chunk_version">>,
   <<"documents", "constraint", "ck_documents_active_chunk_version">>,
   <<"document_chunks", "column", "chunk_version">>,
   <<"document_chunks", "constraint", "ck_document_chunks_version">>,
   <<"document_chunks", "constraint", "uq_document_chunks_document_version_index">>,
   <<"document_chunks", "constraint", "fk_document_chunks_version">>,
   <<"document_chunks", "references", "document_chunk_versions">>}

StatusObjects ==
  {<<"document_chunk_versions", "column", "status">>,
   <<"document_chunk_versions", "column", "attempt_id">>,
   <<"document_chunk_versions", "column", "lease_expires_at">>,
   <<"document_chunk_versions", "column", "attempt_count">>,
   <<"document_chunk_versions", "constraint", "ck_chunk_versions_status">>,
   <<"document_chunk_versions", "constraint", "ck_chunk_versions_attempt_count">>,
   <<"document_chunk_versions", "constraint", "ck_chunk_versions_attempt_lease">>,
   <<"document_chunk_versions", "index", "uq_chunk_versions_processing_document">>}

PageObjects ==
  {<<"document_chunks", "column", "page_start">>,
   <<"document_chunks", "column", "page_end">>,
   <<"document_chunks", "column", "ocr_used">>,
   <<"document_chunks", "constraint", "ck_document_chunks_pdf_page_range">>,
   <<"document_chunks", "constraint", "ck_document_chunks_ocr_has_page">>}

FilterObjects == {<<"retrieval_traces", "column", "metadata_filters">>}

RerankObjects ==
  {<<"retrieval_traces", "column", "reranker_model">>,
   <<"retrieval_trace_results", "column", "candidate_rank">>,
   <<"retrieval_trace_results", "column", "rerank_rank">>,
   <<"retrieval_trace_results", "column", "rerank_score">>,
   <<"retrieval_trace_results", "constraint", "ck_retrieval_trace_results_rerank">>}

TimingObjects == {<<"retrieval_traces", "column", "stage_timings_ms">>}

Since(o) ==
  CASE o \in SearchObjects  -> 5
    [] o \in VersionObjects -> 11
    [] o \in StatusObjects  -> 12
    [] o \in PageObjects    -> 13
    [] o \in FilterObjects  -> 14
    [] o \in RerankObjects  -> 15
    [] o \in TimingObjects  -> 16
    [] OTHER                -> Born(o[1])

LaterObjects ==
  SearchObjects \cup VersionObjects \cup StatusObjects \cup PageObjects \cup FilterObjects
    \cup RerankObjects \cup TimingObjects

SchemaAt(r) == {o \in Declared : Since(o) <= r /\ (o = OldUnique => r <= 10)}

LEMMA TableHas ==
  ASSUME NEW t, NEW cs, NEW ks, NEW is, NEW rs, NEW o
  PROVE  o \in Table(t, cs, ks, is, rs) <=>
           \/ o = <<t, "table", t>>
           \/ \E c \in cs : o = <<t, "column", c>>
           \/ \E c \in ks : o = <<t, "constraint", c>>
           \/ \E c \in is : o = <<t, "index", c>>
           \/ \E c \in rs : o = <<t, "references", c>>
  BY DEF Table

LEMMA TableIs ==
  ASSUME NEW t, NEW cs, NEW ks, NEW is, NEW rs
  PROVE  /\ \A o \in Table(t, cs, ks, is, rs) : o[1] = t /\ (o[2] = "references" => o[3] \in rs)
         /\ <<t, "table", t>> \in Table(t, cs, ks, is, rs)
         /\ \A c : <<t, "table", c>> \in Table(t, cs, ks, is, rs) <=> c = t
         /\ \A c : <<t, "column", c>> \in Table(t, cs, ks, is, rs) <=> c \in cs
         /\ \A c : <<t, "constraint", c>> \in Table(t, cs, ks, is, rs) <=> c \in ks
         /\ \A c : <<t, "index", c>> \in Table(t, cs, ks, is, rs) <=> c \in is
         /\ \A c : <<t, "references", c>> \in Table(t, cs, ks, is, rs) <=> c \in rs
  BY TableHas

\* The objects of a table that later revisions added.
LEMMA SinceIs ==
  /\ \A o \in SearchObjects : Since(o) = 5
  /\ \A o \in VersionObjects : Since(o) = 11
  /\ \A o \in StatusObjects : Since(o) = 12
  /\ \A o \in PageObjects : Since(o) = 13
  /\ \A o \in FilterObjects : Since(o) = 14
  /\ \A o \in RerankObjects : Since(o) = 15
  /\ \A o \in TimingObjects : Since(o) = 16
  /\ \A o : o \notin LaterObjects => Since(o) = Born(o[1])
<1>2. \A o \in VersionObjects : o \notin SearchObjects
  BY DEF SearchObjects, VersionObjects
<1>3. \A o \in StatusObjects : o \notin SearchObjects /\ o \notin VersionObjects
  BY DEF SearchObjects, VersionObjects, StatusObjects
<1>4. \A o \in PageObjects :
        o \notin SearchObjects /\ o \notin VersionObjects /\ o \notin StatusObjects
  BY DEF SearchObjects, VersionObjects, StatusObjects, PageObjects
<1>5. \A o \in FilterObjects :
        /\ o \notin SearchObjects /\ o \notin VersionObjects /\ o \notin StatusObjects
        /\ o \notin PageObjects
  BY DEF SearchObjects, VersionObjects, StatusObjects, PageObjects, FilterObjects
<1>6. \A o \in RerankObjects :
        /\ o \notin SearchObjects /\ o \notin VersionObjects /\ o \notin StatusObjects
        /\ o \notin PageObjects /\ o \notin FilterObjects
  BY DEF SearchObjects, VersionObjects, StatusObjects, PageObjects, FilterObjects, RerankObjects
<1>7. \A o \in TimingObjects :
        /\ o \notin SearchObjects /\ o \notin VersionObjects /\ o \notin StatusObjects
        /\ o \notin PageObjects /\ o \notin FilterObjects /\ o \notin RerankObjects
  BY DEF SearchObjects, VersionObjects, StatusObjects, PageObjects, FilterObjects, RerankObjects,
     TimingObjects
<1> QED
  BY <1>2, <1>3, <1>4, <1>5, <1>6, <1>7 DEF Since, LaterObjects

IsTable(objects, t, rs) ==
  \A o \in objects : o[1] = t /\ (o[2] = "references" => o[3] \in rs)

LEMMA TablesAre ==
  ASSUME NEW t, NEW rs, NEW objects, \E cs, ks, is : objects = Table(t, cs, ks, is, rs)
  PROVE  IsTable(objects, t, rs)
  BY TableIs DEF IsTable

\* What the persistence classes declare of each table.
LEMMA RecordsAre ==
  /\ IsTable(KnowledgeBaseRecord, "knowledge_bases", {})
  /\ IsTable(DocumentRecord, "documents", {"knowledge_bases"})
  /\ IsTable(DocumentChunkVersionRecord, "document_chunk_versions", {"documents"})
  /\ IsTable(DocumentChunkRecord, "document_chunks", {"document_chunk_versions", "documents"})
  /\ IsTable(ChunkEmbeddingRecord, "chunk_embeddings", {"document_chunks"})
  /\ IsTable(RetrievalTraceRecord, "retrieval_traces", {"knowledge_bases"})
  /\ IsTable(RetrievalTraceResultRecord, "retrieval_trace_results", {"retrieval_traces"})
  /\ IsTable(EvaluationDatasetRecord, "evaluation_datasets", {"knowledge_bases"})
  /\ IsTable(EvaluationCaseRecord, "evaluation_cases", {"evaluation_datasets"})
  /\ IsTable(EvaluationJudgmentRecord, "evaluation_judgments", {"evaluation_cases"})
  /\ IsTable(EvaluationRunRecord, "evaluation_runs", {"knowledge_bases"})
  /\ IsTable(EvaluationRunCaseRecord, "evaluation_run_cases", {"evaluation_runs"})
  /\ IsTable(EvaluationBaselineRecord, "evaluation_baselines",
             {"knowledge_bases", "evaluation_datasets", "evaluation_runs"})
  /\ IsTable(EvaluationBaselinePromotionRecord, "evaluation_baseline_promotions",
             {"knowledge_bases", "evaluation_datasets"})
<1>1. IsTable(KnowledgeBaseRecord, "knowledge_bases", {})
  BY TablesAre DEF KnowledgeBaseRecord
<1>2. IsTable(DocumentRecord, "documents", {"knowledge_bases"})
  BY TablesAre DEF DocumentRecord
<1>3. IsTable(DocumentChunkVersionRecord, "document_chunk_versions", {"documents"})
  BY TablesAre DEF DocumentChunkVersionRecord
<1>4. IsTable(DocumentChunkRecord, "document_chunks", {"document_chunk_versions", "documents"})
  BY TablesAre DEF DocumentChunkRecord
<1>5. IsTable(ChunkEmbeddingRecord, "chunk_embeddings", {"document_chunks"})
  BY TablesAre DEF ChunkEmbeddingRecord
<1>6. IsTable(RetrievalTraceRecord, "retrieval_traces", {"knowledge_bases"})
  BY TablesAre DEF RetrievalTraceRecord
<1>7. IsTable(RetrievalTraceResultRecord, "retrieval_trace_results", {"retrieval_traces"})
  BY TablesAre DEF RetrievalTraceResultRecord
<1>8. IsTable(EvaluationDatasetRecord, "evaluation_datasets", {"knowledge_bases"})
  BY TablesAre DEF EvaluationDatasetRecord
<1>9. IsTable(EvaluationCaseRecord, "evaluation_cases", {"evaluation_datasets"})
  BY TablesAre DEF EvaluationCaseRecord
<1>10. IsTable(EvaluationJudgmentRecord, "evaluation_judgments", {"evaluation_cases"})
  BY TablesAre DEF EvaluationJudgmentRecord
<1>11. IsTable(EvaluationRunRecord, "evaluation_runs", {"knowledge_bases"})
  BY TablesAre DEF EvaluationRunRecord
<1>12. IsTable(EvaluationRunCaseRecord, "evaluation_run_cases", {"evaluation_runs"})
  BY TablesAre DEF EvaluationRunCaseRecord
<1>13. IsTable(EvaluationBaselineRecord, "evaluation_baselines",
               {"knowledge_bases", "evaluation_datasets", "evaluation_runs"})
  BY TablesAre DEF EvaluationBaselineRecord
<1>14. IsTable(EvaluationBaselinePromotionRecord, "evaluation_baseline_promotions",
               {"knowledge_bases", "evaluation_datasets"})
  BY TablesAre DEF EvaluationBaselinePromotionRecord
<1> QED
  BY <1>1, <1>2, <1>3, <1>4, <1>5, <1>6, <1>7, <1>8, <1>9, <1>10, <1>11, <1>12, <1>13, <1>14

\* The declared objects of one table.
LEMMA DeclaredOf ==
  /\ \A o \in Declared : o[1] \in TableNames
  /\ \A o : o \in Declared /\ o[1] = "knowledge_bases"
         <=> o \in KnowledgeBaseRecord
  /\ \A o : o \in Declared /\ o[1] = "documents"
         <=> o \in DocumentRecord
  /\ \A o : o \in Declared /\ o[1] = "document_chunk_versions"
         <=> o \in DocumentChunkVersionRecord
  /\ \A o : o \in Declared /\ o[1] = "document_chunks"
         <=> o \in DocumentChunkRecord \cup {OldUnique}
  /\ \A o : o \in Declared /\ o[1] = "chunk_embeddings"
         <=> o \in ChunkEmbeddingRecord
  /\ \A o : o \in Declared /\ o[1] = "retrieval_traces"
         <=> o \in RetrievalTraceRecord
  /\ \A o : o \in Declared /\ o[1] = "retrieval_trace_results"
         <=> o \in RetrievalTraceResultRecord
  /\ \A o : o \in Declared /\ o[1] = "evaluation_datasets"
         <=> o \in EvaluationDatasetRecord
  /\ \A o : o \in Declared /\ o[1] = "evaluation_cases"
         <=> o \in EvaluationCaseRecord
  /\ \A o : o \in Declared /\ o[1] = "evaluation_judgments"
         <=> o \in EvaluationJudgmentRecord
  /\ \A o : o \in Declared /\ o[1] = "evaluation_runs"
         <=> o \in EvaluationRunRecord
  /\ \A o : o \in Declared /\ o[1] = "evaluation_run_cases"
         <=> o \in EvaluationRunCaseRecord
  /\ \A o : o \in Declared /\ o[1] = "evaluation_baselines"
         <=> o \in EvaluationBaselineRecord
  /\ \A o : o \in Declared /\ o[1] = "evaluation_baseline_promotions"
         <=> o \in EvaluationBaselinePromotionRecord
<1>1. OldUnique[1] = "document_chunks"
  BY DEF OldUnique
<1>2. \A o \in KnowledgeBaseRecord : o[1] = "knowledge_bases"
  BY RecordsAre DEF IsTable
<1>3. \A o \in DocumentRecord : o[1] = "documents"
  BY RecordsAre DEF IsTable
<1>4. \A o \in DocumentChunkVersionRecord : o[1] = "document_chunk_versions"
  BY RecordsAre DEF IsTable
<1>5. \A o \in DocumentChunkRecord : o[1] = "document_chunks"
  BY RecordsAre DEF IsTable
<1>6. \A o \in ChunkEmbeddingRecord : o[1] = "chunk_embeddings"
  BY RecordsAre DEF IsTable
<1>7. \A o \in RetrievalTraceRecord : o[1] = "retrieval_traces"
  BY RecordsAre DEF IsTable
<1>8. \A o \in RetrievalTraceResultRecord : o[1] = "retrieval_trace_results"
  BY RecordsAre DEF IsTable
<1>9. \A o \in EvaluationDatasetRecord : o[1] = "evaluation_datasets"
  BY RecordsAre DEF IsTable
<1>10. \A o \in EvaluationCaseRecord : o[1] = "evaluation_cases"
  BY RecordsAre DEF IsTable
<1>11. \A o \in EvaluationJudgmentRecord : o[1] = "evaluation_judgments"
  BY RecordsAre DEF IsTable
<1>12. \A o \in EvaluationRunRecord : o[1] = "evaluation_runs"
  BY RecordsAre DEF IsTable
<1>13. \A o \in EvaluationRunCaseRecord : o[1] = "evaluation_run_cases"
  BY RecordsAre DEF IsTable
<1>14. \A o \in EvaluationBaselineRecord : o[1] = "evaluation_baselines"
  BY RecordsAre DEF IsTable
<1>15. \A o \in EvaluationBaselinePromotionRecord : o[1] = "evaluation_baseline_promotions"
  BY RecordsAre DEF IsTable
<1> QED
  BY <1>1, <1>2, <1>3, <1>4, <1>5, <1>6, <1>7, <1>8, <1>9, <1>10, <1>11, <1>12, <1>13, <1>14, <1>15
     DEF Declared, TargetMetadata, TableNames

LEMMA BornIs ==
  /\ Born("knowledge_bases") = 1 /\ Born("documents") = 2 /\ Born("document_chunks") = 3
  /\ Born("chunk_embeddings") = 4
  /\ Born("retrieval_traces") = 6 /\ Born("retrieval_trace_results") = 6
  /\ Born("evaluation_datasets") = 7 /\ Born("evaluation_cases") = 7
  /\ Born("evaluation_judgments") = 7
  /\ Born("evaluation_runs") = 8 /\ Born("evaluation_run_cases") = 8
  /\ Born("evaluation_baselines") = 9 /\ Born("evaluation_baseline_promotions") = 10
  /\ Born("document_chunk_versions") = 11
  BY DEF Born

LEMMA BornIn == \A t : Born(t) \in 1 .. 11
  BY DEF Born

LEMMA SinceIn == \A o : Since(o) \in 1 .. 16
<1>1. \A o : o \in LaterObjects => Since(o) \in 1 .. 16
  BY SinceIs DEF LaterObjects
<1>2. \A o : o \notin LaterObjects => Since(o) \in 1 .. 16
  BY SinceIs, BornIn
<1> QED
  BY <1>1, <1>2

\* What replaced the old constraint is declared, the old one is not.
LEMMA OldUniqueIs ==
  OldUnique \notin TargetMetadata /\ OldUnique \notin LaterObjects /\ Since(OldUnique) = 3
<1>1. OldUnique \notin LaterObjects
  BY DEF OldUnique, LaterObjects, SearchObjects, VersionObjects, StatusObjects, PageObjects,
     FilterObjects, RerankObjects, TimingObjects
<1>2. OldUnique[1] = "document_chunks"
  BY DEF OldUnique
<1>3. OldUnique \notin DocumentChunkRecord
  <2>1. PICK cs, ks, is, rs :
          /\ DocumentChunkRecord = Table("document_chunks", cs, ks, is, rs)
          /\ "uq_document_chunks_document_index" \notin ks
    BY DEF DocumentChunkRecord
  <2> DEFINE record == Table("document_chunks", cs, ks, is, rs)
             old == "uq_document_chunks_document_index"
  <2>2. \A c : <<"document_chunks", "constraint", c>> \in record <=> c \in ks
    BY TableHas
  <2> HIDE DEF record
  <2>3. <<"document_chunks", "constraint", old>> \in record <=> old \in ks
    BY <2>2
  <2>4. <<"document_chunks", "constraint", old>> \notin record
    BY <2>1, <2>3
  <2>5. DocumentChunkRecord = record
    BY <2>1 DEF record
  <2>6. OldUnique = <<"document_chunks", "constraint", old>>
    BY DEF OldUnique
  <2> HIDE DEF old
  <2> QED
    BY <2>4, <2>5, <2>6
<1>4. OldUnique \notin TargetMetadata
  BY <1>2, <1>3, RecordsAre DEF TargetMetadata, IsTable
<1> QED
  BY <1>1, <1>2, <1>4, SinceIs, BornIs

LEMMA HeadSchema == SchemaAt(16) = TargetMetadata
<1>1. \A o : Since(o) <= 16
  BY SinceIn
<1> QED
  BY <1>1, OldUniqueIs DEF SchemaAt, Declared

\* What a revision adds.
New(s) == {o \in Declared : Since(o) = s}

LEMMA SchemaGrows ==
  /\ SchemaAt(0) = {}
  /\ \A s \in 1 .. 16 : s # 11 => SchemaAt(s) = SchemaAt(s - 1) \cup New(s)
  /\ SchemaAt(11) = (SchemaAt(10) \ {OldUnique}) \cup New(11)
  /\ \A s \in 1 .. 16 : New(s) \cap SchemaAt(s - 1) = {}
  /\ \A r \in 11 .. 16 : OldUnique \notin SchemaAt(r)
  /\ \A r \in 3 .. 10 : OldUnique \in SchemaAt(r)
<1>1. \A o : Since(o) \in 1 .. 16
  BY SinceIn
<1>2. SchemaAt(0) = {}
  BY <1>1 DEF SchemaAt
<1>3. ASSUME NEW s \in 1 .. 16, s # 11 PROVE SchemaAt(s) = SchemaAt(s - 1) \cup New(s)
  <2>1. ASSUME NEW o \in Declared PROVE o \in SchemaAt(s) <=> o \in SchemaAt(s - 1) \cup New(s)
    <3>1. Since(o) \in 1 .. 16 /\ (o = OldUnique => Since(o) = 3)
      BY <1>1, OldUniqueIs
    <3> DEFINE n == Since(o)
    <3>2. o \in SchemaAt(s) <=> n <= s /\ (o = OldUnique => s <= 10)
      BY DEF SchemaAt
    <3>3. o \in SchemaAt(s - 1) <=> n <= s - 1 /\ (o = OldUnique => s - 1 <= 10)
      BY DEF SchemaAt
    <3>4. o \in New(s) <=> n = s
      BY DEF New
    <3>5. n \in 1 .. 16 /\ (o = OldUnique => n = 3)
      BY <3>1
    <3> HIDE DEF n
    <3> QED
      BY <1>3, <3>2, <3>3, <3>4, <3>5
  <2> QED
    BY <2>1 DEF SchemaAt, New
<1>4. SchemaAt(11) = (SchemaAt(10) \ {OldUnique}) \cup New(11)
  <2>1. ASSUME NEW o \in Declared
        PROVE  o \in SchemaAt(11) <=> o \in (SchemaAt(10) \ {OldUnique}) \cup New(11)
    <3> DEFINE n == Since(o)
    <3>1. n \in 1 .. 16 /\ (o = OldUnique => n = 3)
      BY <1>1, OldUniqueIs
    <3>2. /\ o \in SchemaAt(11) <=> n <= 11 /\ (o = OldUnique => 11 <= 10)
          /\ o \in SchemaAt(10) <=> n <= 10 /\ (o = OldUnique => 10 <= 10)
          /\ o \in New(11) <=> n = 11
      BY DEF SchemaAt, New
    <3> HIDE DEF n
    <3> QED
      BY <3>1, <3>2
  <2> QED
    BY <2>1 DEF SchemaAt, New
<1>5. ASSUME NEW s \in 1 .. 16 PROVE New(s) \cap SchemaAt(s - 1) = {}
  <2>1. \A o : ~(Since(o) = s /\ Since(o) <= s - 1)
    OBVIOUS
  <2> QED
    BY <2>1 DEF New, SchemaAt
<1>6. \A r \in 11 .. 16 : OldUnique \notin SchemaAt(r)
  BY DEF SchemaAt
<1>7. \A r \in 3 .. 10 : OldUnique \in SchemaAt(r)
  BY OldUniqueIs DEF SchemaAt, Declared
<1> QED
  BY <1>2, <1>3, <1>4, <1>5, <1>6, <1>7

\* A schema with exactly the tables T, none of which refers to another one.
Tables(s, T) ==
  /\ \A o \in s : o[1] \in T /\ (o[2] = "references" => o[3] \in T)
  /\ \A t \in T : <<t, "table", t>> \in s

TablesAt(r) == {t \in TableNames : Born(t) <= r}

LEMMA LaterObjectsAre ==
  /\ \A o \in LaterObjects : o[2] # "table" /\ Born(o[1]) <= Since(o)
  /\ \A o \in LaterObjects :
       o[2] = "references" => o = <<"document_chunks", "references", "document_chunk_versions">>
  /\ <<"document_chunks", "references", "document_chunk_versions">> \in VersionObjects
<1>1. \A o \in LaterObjects :
        /\ o[2] # "table"
        /\ o[2] = "references" => o = <<"document_chunks", "references", "document_chunk_versions">>
  BY DEF LaterObjects, SearchObjects, VersionObjects, StatusObjects, PageObjects,
     FilterObjects, RerankObjects, TimingObjects
<1>2. \A o \in SearchObjects : Born(o[1]) <= 5
  BY BornIs DEF SearchObjects
<1>3. \A o \in VersionObjects : Born(o[1]) <= 11
  BY BornIs DEF VersionObjects
<1>4. \A o \in StatusObjects \cup PageObjects \cup FilterObjects \cup RerankObjects
                 \cup TimingObjects : Born(o[1]) <= 12
  BY BornIs DEF StatusObjects, PageObjects, FilterObjects, RerankObjects, TimingObjects
<1>5. \A o \in LaterObjects : Born(o[1]) <= Since(o)
  BY <1>2, <1>3, <1>4, SinceIs, BornIn DEF LaterObjects
<1>6. <<"document_chunks", "references", "document_chunk_versions">> \in VersionObjects
  BY DEF VersionObjects
<1> QED
  BY <1>1, <1>5, <1>6

\* Tables are created after the tables they refer to, and the version of a chunk
\* is referred to since versions exist.
LEMMA ReferencesAre ==
  ASSUME NEW o \in Declared, o[2] = "references"
  PROVE  o[3] \in TableNames /\ Born(o[3]) <= Since(o)
<1> DEFINE version == <<"document_chunks", "references", "document_chunk_versions">>
<1>1. Born(o[1]) <= Since(o)
  BY LaterObjectsAre, SinceIs, BornIn
<1>2. Since(version) = 11
  BY LaterObjectsAre, SinceIs
<1>3. CASE o = OldUnique
  BY <1>3 DEF OldUnique
<1>4. CASE o \in DocumentChunkRecord
  <2>1. o[1] = "document_chunks" /\ o[3] \in {"document_chunk_versions", "documents"}
    BY <1>4, RecordsAre DEF IsTable
  <2>2. CASE o[3] = "documents"
    BY <1>1, <2>1, <2>2, SinceIn, BornIs DEF TableNames
  <2>3. CASE o[3] = "document_chunk_versions"
    <3>1. PICK cs, ks, is, rs : DocumentChunkRecord = Table("document_chunks", cs, ks, is, rs)
      BY DEF DocumentChunkRecord
    <3>2. o = <<"document_chunks", "references", o[3]>>
      BY <1>4, <3>1, TableHas
    <3> QED
      BY <1>2, <2>3, <3>2, BornIs DEF TableNames
  <2> QED
    BY <2>1, <2>2, <2>3
<1>5. CASE o \notin DocumentChunkRecord /\ o # OldUnique
  <2>1. o \in TargetMetadata /\ o \notin DocumentChunkRecord
    BY <1>5 DEF Declared
  <2>2. o[3] \in TableNames /\ Born(o[3]) <= Born(o[1])
    BY <2>1, RecordsAre, BornIs DEF TargetMetadata, IsTable, TableNames
  <2> QED
    BY <1>1, <2>2, SinceIn, BornIn
<1> QED
  BY <1>3, <1>4, <1>5

LEMMA TablesDeclared ==
  ASSUME NEW t \in TableNames
  PROVE  <<t, "table", t>> \in Declared /\ Since(<<t, "table", t>>) = Born(t)
<1> DEFINE o == <<t, "table", t>>
<1>1. o[2] = "table" /\ o[1] = t
  OBVIOUS
<1>2. Since(o) = Born(t)
  <2> HIDE DEF o
  <2> QED
    BY <1>1, LaterObjectsAre, SinceIs
<1>3. ASSUME NEW objects, \E cs, ks, is, rs : objects = Table(t, cs, ks, is, rs)
      PROVE  o \in objects
  BY <1>3, TableIs
<1>4. o \in TargetMetadata
  <2> HIDE DEF o
  <2>1. CASE t \in {"knowledge_bases", "documents", "document_chunk_versions", "document_chunks",
                    "chunk_embeddings", "retrieval_traces", "retrieval_trace_results"}
    <3>1. /\ t = "knowledge_bases" => o \in KnowledgeBaseRecord
          /\ t = "documents" => o \in DocumentRecord
          /\ t = "document_chunk_versions" => o \in DocumentChunkVersionRecord
          /\ t = "document_chunks" => o \in DocumentChunkRecord
          /\ t = "chunk_embeddings" => o \in ChunkEmbeddingRecord
          /\ t = "retrieval_traces" => o \in RetrievalTraceRecord
          /\ t = "retrieval_trace_results" => o \in RetrievalTraceResultRecord
      BY <1>3 DEF KnowledgeBaseRecord, DocumentRecord, DocumentChunkVersionRecord,
         DocumentChunkRecord, ChunkEmbeddingRecord, RetrievalTraceRecord,
         RetrievalTraceResultRecord
    <3> QED
      BY <2>1, <3>1 DEF TargetMetadata
  <2>2. CASE t \in {"evaluation_datasets", "evaluation_cases", "evaluation_judgments",
                    "evaluation_runs", "evaluation_run_cases", "evaluation_baselines",
                    "evaluation_baseline_promotions"}
    <3>1. /\ t = "evaluation_datasets" => o \in EvaluationDatasetRecord
          /\ t = "evaluation_cases" => o \in EvaluationCaseRecord
          /\ t = "evaluation_judgments" => o \in EvaluationJudgmentRecord
          /\ t = "evaluation_runs" => o \in EvaluationRunRecord
          /\ t = "evaluation_run_cases" => o \in EvaluationRunCaseRecord
          /\ t = "evaluation_baselines" => o \in EvaluationBaselineRecord
          /\ t = "evaluation_baseline_promotions" => o \in EvaluationBaselinePromotionRecord
      BY <1>3 DEF EvaluationDatasetRecord, EvaluationCaseRecord, EvaluationJudgmentRecord,
         EvaluationRunRecord, EvaluationRunCaseRecord, EvaluationBaselineRecord,
         EvaluationBaselinePromotionRecord
    <3> QED
      BY <2>2, <3>1 DEF TargetMetadata
  <2> QED
    BY <2>1, <2>2 DEF TableNames
<1> QED
  BY <1>2, <1>4 DEF Declared

LEMMA TablesAtRevision ==
  ASSUME NEW r \in 0 .. 16 PROVE Tables(SchemaAt(r), TablesAt(r))
<1>1. ASSUME NEW o \in SchemaAt(r) PROVE o[1] \in TablesAt(r)
  <2>1. o \in Declared /\ Since(o) <= r
    BY DEF SchemaAt
  <2>2. Born(o[1]) <= Since(o)
    BY LaterObjectsAre, SinceIs, BornIn
  <2>3. o[1] \in TableNames
    BY <2>1, DeclaredOf
  <2> QED
    BY <2>1, <2>2, <2>3, SinceIn, BornIn DEF TablesAt
<1>2. ASSUME NEW o \in SchemaAt(r), o[2] = "references" PROVE o[3] \in TablesAt(r)
  <2>1. o \in Declared /\ Since(o) <= r
    BY DEF SchemaAt
  <2>2. o[3] \in TableNames /\ Born(o[3]) <= Since(o)
    BY <1>2, <2>1, ReferencesAre
  <2> QED
    BY <2>1, <2>2, SinceIn, BornIn DEF TablesAt
<1>3. ASSUME NEW t \in TablesAt(r) PROVE <<t, "table", t>> \in SchemaAt(r)
  <2>1. <<t, "table", t>> \in Declared /\ Since(<<t, "table", t>>) <= r
    BY TablesDeclared DEF TablesAt
  <2>2. <<t, "table", t>> # OldUnique
    BY DEF OldUnique
  <2> QED
    BY <2>1, <2>2 DEF SchemaAt
<1> QED
  BY <1>1, <1>2, <1>3 DEF Tables

-----------------------------------------------------------------------------
\* What an operation needs of a schema, its names aside, and what it makes of it.
Turns(s, op, t) ==
  /\ op.needs \subseteq s /\ op.drops \subseteq s /\ op.adds \cap s = {}
  /\ op.op = "drop_table" =>
       ~\E o \in s : o[2] = "references" /\ o[3] = op.target /\ o[1] # op.target
  /\ t = IF op.op = "drop_table" THEN {o \in s : o[1] # op.target}
         ELSE IF op.op = "widen" THEN s
         ELSE (s \cup op.adds) \ op.drops

Grows(op) == op.op \in {"create", "widen"} /\ op.drops = {} /\ (op.op = "widen" => op.to = 64)
Shrinks(op) == op.op \in {"drop", "drop_table"} /\ op.adds = {}

\* Adding objects to a table that exists, and dropping them again.
LEMMA ObjectsTurn ==
  ASSUME NEW s, NEW t, NEW objects, <<t, "table", t>> \in s, objects \cap s = {},
         NEW needs, needs \subseteq s
  PROVE  /\ Turns(s, Adds(t, objects, needs), s \cup objects)
         /\ Turns(s \cup objects, Drops(t, objects), s)
         /\ Grows(Adds(t, objects, needs)) /\ Shrinks(Drops(t, objects))
<1>1. /\ (s \cup objects) \ {} = s \cup objects
      /\ ((s \cup objects) \cup {}) \ objects = s
  OBVIOUS
<1>2. /\ Turns(s, Adds(t, objects, needs), s \cup objects)
      /\ Turns(s \cup objects, Drops(t, objects), s)
  BY <1>1 DEF Turns, Adds, Drops
<1> QED
  BY <1>2 DEF Grows, Shrinks, Adds, Drops

\* Creating a table, with an index, and dropping it again.
LEMMA TableTurns ==
  ASSUME NEW s, NEW T, Tables(s, T), NEW t, t \notin T, NEW cs, NEW ks, NEW rs, rs \subseteq T
  PROVE  LET u == s \cup Table(t, cs, ks, {}, rs)
         IN  /\ Turns(s, CreateTable(t, cs, ks, rs), u)
             /\ Turns(u, DropTable(t), s)
             /\ Grows(CreateTable(t, cs, ks, rs)) /\ Shrinks(DropTable(t))
<1> DEFINE objects == Table(t, cs, ks, {}, rs)
           u == s \cup objects
<1>1. \A o \in objects : o[1] = t
  BY DEF Table
<1>2. <<t, "table", t>> \in objects
  BY DEF Table
<1>3. /\ CreateTable(t, cs, ks, rs).adds = objects /\ CreateTable(t, cs, ks, rs).drops = {}
      /\ CreateTable(t, cs, ks, rs).op = "create"
      /\ CreateTable(t, cs, ks, rs).needs = {<<r, "table", r>> : r \in rs}
  BY DEF CreateTable
<1>4. /\ DropTable(t).adds = {} /\ DropTable(t).drops = {<<t, "table", t>>}
      /\ DropTable(t).op = "drop_table" /\ DropTable(t).target = t /\ DropTable(t).needs = {}
  BY DEF DropTable
<1> HIDE DEF objects
<1>5. objects \cap s = {}
  BY <1>1 DEF Tables
<1>6. Turns(s, CreateTable(t, cs, ks, rs), u)
  <2>1. {<<r, "table", r>> : r \in rs} \subseteq s
    BY DEF Tables
  <2> QED
    BY <1>3, <1>5, <2>1 DEF Turns
<1>7. Turns(u, DropTable(t), s)
  <2>1. {o \in u : o[1] # t} = s
    BY <1>1 DEF Tables
  <2>2. ~\E o \in u : o[2] = "references" /\ o[3] = t /\ o[1] # t
    BY <1>1 DEF Tables
  <2> HIDE DEF u
  <2>3. <<t, "table", t>> \in u
    BY <1>2 DEF u
  <2> QED
    BY <1>4, <2>1, <2>2, <2>3 DEF Turns
<1>8. Grows(CreateTable(t, cs, ks, rs)) /\ Shrinks(DropTable(t))
  BY <1>3, <1>4 DEF Grows, Shrinks
<1> QED
  BY <1>6, <1>7, <1>8 DEF objects

LEMMA IndexTurns ==
  ASSUME NEW s, NEW T, Tables(s, T), NEW t, t \notin T, NEW cs, NEW ks, NEW rs, NEW is, NEW i,
         i \notin is
  PROVE  LET u == s \cup Table(t, cs, ks, is, rs)
             v == s \cup Table(t, cs, ks, is \cup {i}, rs)
         IN  /\ Turns(u, CreateIndex(t, i), v)
             /\ Turns(v, DropIndex(t, i), u)
             /\ Grows(CreateIndex(t, i)) /\ Shrinks(DropIndex(t, i))
<1> DEFINE u == s \cup Table(t, cs, ks, is, rs)
           v == s \cup Table(t, cs, ks, is \cup {i}, rs)
           object == <<t, "index", i>>
<1>1. <<t, "table", t>> \in u
  BY TableIs
<1>2. object \notin u
  <2>1. object \notin Table(t, cs, ks, is, rs)
    BY DEF Table
  <2>2. object \notin s
    <3>1. object[1] = t
      OBVIOUS
    <3> HIDE DEF object
    <3> QED
      BY <3>1 DEF Tables
  <2> QED
    BY <2>1, <2>2
<1>3. v = u \cup {object}
  BY DEF Table
<1> HIDE DEF u, v
<1>4. /\ Turns(u, Adds(t, {object}, {}), u \cup {object})
      /\ Turns(u \cup {object}, Drops(t, {object}), u)
      /\ Grows(Adds(t, {object}, {})) /\ Shrinks(Drops(t, {object}))
  BY <1>1, <1>2, ObjectsTurn
<1> QED
  BY <1>3, <1>4 DEF CreateIndex, DropIndex, u, v

LEMMA TablesGrow ==
  ASSUME NEW s, NEW T, Tables(s, T), NEW t, NEW cs, NEW ks, NEW is, NEW rs, rs \subseteq T
  PROVE  Tables(s \cup Table(t, cs, ks, is, rs), T \cup {t})
<1>1. /\ \A o \in Table(t, cs, ks, is, rs) : o[1] = t /\ (o[2] = "references" => o[3] \in rs)
      /\ <<t, "table", t>> \in Table(t, cs, ks, is, rs)
  BY TableIs
<1> QED
  BY <1>1 DEF Tables

\* A revision whose downgrade undoes its upgrade, operation by operation: S[n] is
\* the schema before the n-th operation on the way up.
Paired(S, L, up, down) ==
  /\ L \in Nat /\ Len(up) = L /\ Len(down) = L
  /\ \A n \in 1 .. L :
       /\ Turns(S[n], up[n], S[n + 1]) /\ Grows(up[n])
       /\ Turns(S[n + 1], down[L + 1 - n], S[n]) /\ Shrinks(down[L + 1 - n])

LEMMA OneTable ==
  ASSUME NEW s, NEW T, Tables(s, T), NEW t, t \notin T, NEW cs, NEW ks, NEW rs, rs \subseteq T,
         NEW i
  PROVE  \E S : /\ Paired(S, 2, <<CreateTable(t, cs, ks, rs), CreateIndex(t, i)>>,
                                <<DropIndex(t, i), DropTable(t)>>)
                /\ S[1] = s /\ S[3] = s \cup Table(t, cs, ks, {i}, rs)
<1> DEFINE u == s \cup Table(t, cs, ks, {}, rs)
           v == s \cup Table(t, cs, ks, {i}, rs)
           S == <<s, u, v>>
<1>1. /\ Turns(s, CreateTable(t, cs, ks, rs), u) /\ Turns(u, DropTable(t), s)
      /\ Grows(CreateTable(t, cs, ks, rs)) /\ Shrinks(DropTable(t))
  BY TableTurns
<1>2. /\ Turns(u, CreateIndex(t, i), v) /\ Turns(v, DropIndex(t, i), u)
      /\ Grows(CreateIndex(t, i)) /\ Shrinks(DropIndex(t, i))
  <2>1. i \notin {} /\ {} \cup {i} = {i}
    OBVIOUS
  <2> QED
    BY <2>1, IndexTurns
<1> HIDE DEF u, v
<1>3. Paired(S, 2, <<CreateTable(t, cs, ks, rs), CreateIndex(t, i)>>,
                   <<DropIndex(t, i), DropTable(t)>>)
  BY <1>1, <1>2 DEF Paired
<1>4. S[1] = s /\ S[3] = v
  OBVIOUS
<1> QED
  BY <1>3, <1>4 DEF v

\* A revision that adds single objects to tables that exist.
ObjectsAdded(s, L, w, up, down) ==
  /\ L \in Nat /\ Len(up) = L /\ Len(down) = L
  /\ \A m, n \in 1 .. L : w[m] = w[n] => m = n
  /\ \A n \in 1 .. L :
       /\ w[n] \notin s /\ <<w[n][1], "table", w[n][1]>> \in s
       /\ up[n] = Adds(w[n][1], {w[n]}, {}) /\ down[L + 1 - n] = Drops(w[n][1], {w[n]})

LEMMA ObjectsPaired ==
  ASSUME NEW s, NEW L, NEW w, NEW up, NEW down, ObjectsAdded(s, L, w, up, down)
  PROVE  \E S : Paired(S, L, up, down) /\ S[1] = s /\ S[L + 1] = s \cup {w[n] : n \in 1 .. L}
<1>0. /\ L \in Nat /\ Len(up) = L /\ Len(down) = L
      /\ \A m, n \in 1 .. L : w[m] = w[n] => m = n
      /\ \A n \in 1 .. L :
           /\ w[n] \notin s /\ <<w[n][1], "table", w[n][1]>> \in s
           /\ up[n] = Adds(w[n][1], {w[n]}, {}) /\ down[L + 1 - n] = Drops(w[n][1], {w[n]})
  BY DEF ObjectsAdded
<1>n. L \in Nat
  BY <1>0
<1> DEFINE S == [n \in 1 .. L + 1 |-> s \cup {w[i] : i \in 1 .. n - 1}]
<1>1. S[1] = s /\ S[L + 1] = s \cup {w[n] : n \in 1 .. L}
  BY <1>n
<1>2. ASSUME NEW n \in 1 .. L
      PROVE  S[n + 1] = S[n] \cup {w[n]} /\ {w[n]} \cap S[n] = {} /\ s \subseteq S[n]
  <2>1. /\ n \in 1 .. L + 1 /\ n + 1 \in 1 .. L + 1 /\ (n + 1) - 1 = n
        /\ \A i : i \in 1 .. n <=> i \in 1 .. n - 1 \/ i = n
        /\ n \notin 1 .. n - 1 /\ \A i \in 1 .. n - 1 : i \in 1 .. L
    BY <1>n
  <2>2. S[n] = s \cup {w[i] : i \in 1 .. n - 1} /\ S[n + 1] = s \cup {w[i] : i \in 1 .. n}
    BY <2>1
  <2>3. \A i \in 1 .. n - 1 : w[i] # w[n]
    BY <1>0, <2>1
  <2>4. w[n] \notin s
    BY <1>0
  <2> DEFINE x == {w[i] : i \in 1 .. n - 1}
             y == {w[i] : i \in 1 .. n}
  <2>5. w[n] \notin x
    BY <2>3
  <2>6. y = x \cup {w[n]}
    BY <2>1
  <2>7. S[n] = s \cup x /\ S[n + 1] = s \cup y
    BY <2>2
  <2> HIDE DEF x, y, S
  <2> QED
    BY <2>4, <2>5, <2>6, <2>7
<1> HIDE DEF S
<1>3. ASSUME NEW n \in 1 .. L
      PROVE  /\ Turns(S[n], up[n], S[n + 1]) /\ Grows(up[n])
             /\ Turns(S[n + 1], down[L + 1 - n], S[n]) /\ Shrinks(down[L + 1 - n])
  <2> DEFINE o == w[n]
             x == S[n]
  <2>1. /\ S[n + 1] = x \cup {o} /\ {o} \cap x = {} /\ <<o[1], "table", o[1]>> \in x
        /\ up[n] = Adds(o[1], {o}, {}) /\ down[L + 1 - n] = Drops(o[1], {o}) /\ {} \subseteq x
    BY <1>0, <1>2
  <2> HIDE DEF o, x
  <2>2. /\ Turns(x, Adds(o[1], {o}, {}), x \cup {o}) /\ Turns(x \cup {o}, Drops(o[1], {o}), x)
        /\ Grows(Adds(o[1], {o}, {})) /\ Shrinks(Drops(o[1], {o}))
    BY <2>1, ObjectsTurn
  <2> QED
    BY <2>1, <2>2 DEF x
<1>4. Paired(S, L, up, down)
  BY <1>0, <1>3 DEF Paired
<1> QED
  BY <1>1, <1>4

\* The objects that a table was created with.
Fresh(t) == {o \in Declared : o[1] = t /\ o \notin LaterObjects}

LEMMA LaterTables ==
  \A o \in LaterObjects :
    o[1] \in {"documents", "document_chunks", "document_chunk_versions", "retrieval_traces",
              "retrieval_trace_results"}
  BY DEF LaterObjects, SearchObjects, VersionObjects, StatusObjects, PageObjects,
     FilterObjects, RerankObjects, TimingObjects

LEMMA FreshRecords ==
  /\ Fresh("knowledge_bases") = KnowledgeBaseRecord
  /\ Fresh("chunk_embeddings") = ChunkEmbeddingRecord
  /\ Fresh("evaluation_datasets") = EvaluationDatasetRecord
  /\ Fresh("evaluation_cases") = EvaluationCaseRecord
  /\ Fresh("evaluation_judgments") = EvaluationJudgmentRecord
  /\ Fresh("evaluation_runs") = EvaluationRunRecord
  /\ Fresh("evaluation_run_cases") = EvaluationRunCaseRecord
  /\ Fresh("evaluation_baselines") = EvaluationBaselineRecord
  /\ Fresh("evaluation_baseline_promotions") = EvaluationBaselinePromotionRecord
<1>1. \A t : t \notin {"documents", "document_chunks", "document_chunk_versions",
                       "retrieval_traces", "retrieval_trace_results"}
               => \A o : o \in Fresh(t) <=> o \in Declared /\ o[1] = t
  BY LaterTables DEF Fresh
<1>2. Fresh("knowledge_bases") = KnowledgeBaseRecord
  <2>1. \A o : o \in Fresh("knowledge_bases") <=> o \in Declared /\ o[1] = "knowledge_bases"
    BY <1>1
  <2>2. \A o : o \in Declared /\ o[1] = "knowledge_bases" <=> o \in KnowledgeBaseRecord
    BY DeclaredOf
  <2> QED
    BY <2>1, <2>2
<1>3. Fresh("chunk_embeddings") = ChunkEmbeddingRecord
  <2>1. \A o : o \in Fresh("chunk_embeddings") <=> o \in Declared /\ o[1] = "chunk_embeddings"
    BY <1>1
  <2>2. \A o : o \in Declared /\ o[1] = "chunk_embeddings" <=> o \in ChunkEmbeddingRecord
    BY DeclaredOf
  <2> QED
    BY <2>1, <2>2
<1>4. Fresh("evaluation_datasets") = EvaluationDatasetRecord
  <2>1. \A o : o \in Fresh("evaluation_datasets") <=> o \in Declared /\ o[1] = "evaluation_datasets"
    BY <1>1
  <2>2. \A o : o \in Declared /\ o[1] = "evaluation_datasets" <=> o \in EvaluationDatasetRecord
    BY DeclaredOf
  <2> QED
    BY <2>1, <2>2
<1>5. Fresh("evaluation_cases") = EvaluationCaseRecord
  <2>1. \A o : o \in Fresh("evaluation_cases") <=> o \in Declared /\ o[1] = "evaluation_cases"
    BY <1>1
  <2>2. \A o : o \in Declared /\ o[1] = "evaluation_cases" <=> o \in EvaluationCaseRecord
    BY DeclaredOf
  <2> QED
    BY <2>1, <2>2
<1>6. Fresh("evaluation_judgments") = EvaluationJudgmentRecord
  <2>1. \A o : o \in Fresh("evaluation_judgments")
                 <=> o \in Declared /\ o[1] = "evaluation_judgments"
    BY <1>1
  <2>2. \A o : o \in Declared /\ o[1] = "evaluation_judgments" <=> o \in EvaluationJudgmentRecord
    BY DeclaredOf
  <2> QED
    BY <2>1, <2>2
<1>7. Fresh("evaluation_runs") = EvaluationRunRecord
  <2>1. \A o : o \in Fresh("evaluation_runs") <=> o \in Declared /\ o[1] = "evaluation_runs"
    BY <1>1
  <2>2. \A o : o \in Declared /\ o[1] = "evaluation_runs" <=> o \in EvaluationRunRecord
    BY DeclaredOf
  <2> QED
    BY <2>1, <2>2
<1>8. Fresh("evaluation_run_cases") = EvaluationRunCaseRecord
  <2>1. \A o : o \in Fresh("evaluation_run_cases")
                 <=> o \in Declared /\ o[1] = "evaluation_run_cases"
    BY <1>1
  <2>2. \A o : o \in Declared /\ o[1] = "evaluation_run_cases" <=> o \in EvaluationRunCaseRecord
    BY DeclaredOf
  <2> QED
    BY <2>1, <2>2
<1>9. Fresh("evaluation_baselines") = EvaluationBaselineRecord
  <2>1. \A o : o \in Fresh("evaluation_baselines")
                 <=> o \in Declared /\ o[1] = "evaluation_baselines"
    BY <1>1
  <2>2. \A o : o \in Declared /\ o[1] = "evaluation_baselines" <=> o \in EvaluationBaselineRecord
    BY DeclaredOf
  <2> QED
    BY <2>1, <2>2
<1>10. Fresh("evaluation_baseline_promotions") = EvaluationBaselinePromotionRecord
  <2>1. \A o : o \in Fresh("evaluation_baseline_promotions")
                 <=> o \in Declared /\ o[1] = "evaluation_baseline_promotions"
    BY <1>1
  <2>2. \A o : o \in Declared /\ o[1] = "evaluation_baseline_promotions"
                 <=> o \in EvaluationBaselinePromotionRecord
    BY DeclaredOf
  <2> QED
    BY <2>1, <2>2
<1> QED
  BY <1>2, <1>3, <1>4, <1>5, <1>6, <1>7, <1>8, <1>9, <1>10

\* What a revision that creates tables adds.
LEMMA NewTables ==
  /\ New(1) = Fresh("knowledge_bases") /\ New(2) = Fresh("documents")
  /\ New(3) = Fresh("document_chunks") /\ New(4) = Fresh("chunk_embeddings")
  /\ New(6) = Fresh("retrieval_traces") \cup Fresh("retrieval_trace_results")
  /\ New(7) = Fresh("evaluation_datasets") \cup Fresh("evaluation_cases")
                \cup Fresh("evaluation_judgments")
  /\ New(8) = Fresh("evaluation_runs") \cup Fresh("evaluation_run_cases")
  /\ New(9) = Fresh("evaluation_baselines")
  /\ New(10) = Fresh("evaluation_baseline_promotions")
<1>1. \A o \in LaterObjects : Since(o) \in {5, 11, 12, 13, 14, 15, 16}
  BY SinceIs DEF LaterObjects
<1>2. \A o : o \notin LaterObjects => Since(o) = Born(o[1])
  BY SinceIs
<1>3. \A s \in {1, 2, 3, 4, 6, 7, 8, 9, 10} :
        New(s) = {o \in Declared : o \notin LaterObjects /\ Born(o[1]) = s}
  BY <1>1, <1>2 DEF New
<1>4. \A o \in Declared : o[1] \in TableNames
  BY DeclaredOf
<1>5. \A t \in TableNames :
        /\ Born(t) = 1 <=> t = "knowledge_bases"
        /\ Born(t) = 2 <=> t = "documents"
        /\ Born(t) = 3 <=> t = "document_chunks"
        /\ Born(t) = 4 <=> t = "chunk_embeddings"
        /\ Born(t) = 6 <=> t \in {"retrieval_traces", "retrieval_trace_results"}
        /\ Born(t) = 7 <=>
             t \in {"evaluation_datasets", "evaluation_cases", "evaluation_judgments"}
        /\ Born(t) = 8 <=> t \in {"evaluation_runs", "evaluation_run_cases"}
        /\ Born(t) = 9 <=> t = "evaluation_baselines"
        /\ Born(t) = 10 <=> t = "evaluation_baseline_promotions"
  BY BornIs DEF TableNames
<1> QED
  BY <1>3, <1>4, <1>5 DEF Fresh

\* The objects that a table was created with, when those added later are known.
LEMMA FreshIs ==
  ASSUME NEW t, NEW cs, NEW ks, NEW is, NEW rs, NEW cs1, NEW ks1, NEW is1, NEW rs1,
         \A o : o \in Declared /\ o[1] = t <=> o \in Table(t, cs, ks, is, rs),
         <<t, "table", t>> \notin LaterObjects,
         \A c : c \in cs1 <=> c \in cs /\ <<t, "column", c>> \notin LaterObjects,
         \A c : c \in ks1 <=> c \in ks /\ <<t, "constraint", c>> \notin LaterObjects,
         \A c : c \in is1 <=> c \in is /\ <<t, "index", c>> \notin LaterObjects,
         \A c : c \in rs1 <=> c \in rs /\ <<t, "references", c>> \notin LaterObjects
  PROVE  Fresh(t) = Table(t, cs1, ks1, is1, rs1)
<1>1. \A o : o \in Fresh(t) <=> o \in Table(t, cs, ks, is, rs) /\ o \notin LaterObjects
  BY DEF Fresh
<1>2. \A o : o \in Table(t, cs, ks, is, rs) /\ o \notin LaterObjects
               <=> o \in Table(t, cs1, ks1, is1, rs1)
  <2>1. ASSUME NEW o, o \in Table(t, cs, ks, is, rs), o \notin LaterObjects
        PROVE  o \in Table(t, cs1, ks1, is1, rs1)
    BY <2>1, TableHas
  <2>2. ASSUME NEW o, o \in Table(t, cs1, ks1, is1, rs1)
        PROVE  o \in Table(t, cs, ks, is, rs) /\ o \notin LaterObjects
    BY <2>2, TableHas
  <2> QED
    BY <2>1, <2>2
<1> QED
  BY <1>1, <1>2

\* The later objects of the tables that have some, by kind.
LEMMA LaterOf ==
  ASSUME NEW c
  PROVE  /\ <<"documents", "column", c>> \in LaterObjects <=> c = "active_chunk_version"
         /\ <<"documents", "constraint", c>> \in LaterObjects
              <=> c = "ck_documents_active_chunk_version"
         /\ <<"documents", "index", c>> \notin LaterObjects
         /\ <<"documents", "references", c>> \notin LaterObjects
         /\ <<"document_chunks", "column", c>> \in LaterObjects
              <=> c \in {"search_vector", "chunk_version", "page_start", "page_end", "ocr_used"}
         /\ <<"document_chunks", "constraint", c>> \in LaterObjects
              <=> c \in {"ck_document_chunks_version",
                         "uq_document_chunks_document_version_index",
                         "fk_document_chunks_version", "ck_document_chunks_pdf_page_range",
                         "ck_document_chunks_ocr_has_page"}
         /\ <<"document_chunks", "index", c>> \in LaterObjects
              <=> c = "ix_document_chunks_search_vector"
         /\ <<"document_chunks", "references", c>> \in LaterObjects
              <=> c = "document_chunk_versions"
         /\ <<"document_chunk_versions", "column", c>> \in LaterObjects
              <=> c \in {"status", "attempt_id", "lease_expires_at", "attempt_count"}
         /\ <<"document_chunk_versions", "constraint", c>> \in LaterObjects
              <=> c \in {"ck_chunk_versions_status", "ck_chunk_versions_attempt_count",
                         "ck_chunk_versions_attempt_lease"}
         /\ <<"document_chunk_versions", "index", c>> \in LaterObjects
              <=> c = "uq_chunk_versions_processing_document"
         /\ <<"document_chunk_versions", "references", c>> \notin LaterObjects
         /\ <<"retrieval_traces", "column", c>> \in LaterObjects
              <=> c \in {"metadata_filters", "reranker_model", "stage_timings_ms"}
         /\ <<"retrieval_traces", "constraint", c>> \notin LaterObjects
         /\ <<"retrieval_traces", "index", c>> \notin LaterObjects
         /\ <<"retrieval_traces", "references", c>> \notin LaterObjects
         /\ <<"retrieval_trace_results", "column", c>> \in LaterObjects
              <=> c \in {"candidate_rank", "rerank_rank", "rerank_score"}
         /\ <<"retrieval_trace_results", "constraint", c>> \in LaterObjects
              <=> c = "ck_retrieval_trace_results_rerank"
         /\ <<"retrieval_trace_results", "index", c>> \notin LaterObjects
         /\ <<"retrieval_trace_results", "references", c>> \notin LaterObjects
<1>1. /\ <<"documents", "column", c>> \in LaterObjects <=> c = "active_chunk_version"
      /\ <<"documents", "constraint", c>> \in LaterObjects
           <=> c = "ck_documents_active_chunk_version"
      /\ <<"documents", "index", c>> \notin LaterObjects
      /\ <<"documents", "references", c>> \notin LaterObjects
  BY DEF LaterObjects, SearchObjects, VersionObjects, StatusObjects, PageObjects,
     FilterObjects, RerankObjects, TimingObjects
<1>2. /\ <<"document_chunks", "column", c>> \in LaterObjects
           <=> c \in {"search_vector", "chunk_version", "page_start", "page_end", "ocr_used"}
      /\ <<"document_chunks", "constraint", c>> \in LaterObjects
           <=> c \in {"ck_document_chunks_version", "uq_document_chunks_document_version_index",
                      "fk_document_chunks_version", "ck_document_chunks_pdf_page_range",
                      "ck_document_chunks_ocr_has_page"}
      /\ <<"document_chunks", "index", c>> \in LaterObjects
           <=> c = "ix_document_chunks_search_vector"
      /\ <<"document_chunks", "references", c>> \in LaterObjects
           <=> c = "document_chunk_versions"
  BY DEF LaterObjects, SearchObjects, VersionObjects, StatusObjects, PageObjects,
     FilterObjects, RerankObjects, TimingObjects
<1>3. /\ <<"document_chunk_versions", "column", c>> \in LaterObjects
           <=> c \in {"status", "attempt_id", "lease_expires_at", "attempt_count"}
      /\ <<"document_chunk_versions", "constraint", c>> \in LaterObjects
           <=> c \in {"ck_chunk_versions_status", "ck_chunk_versions_attempt_count",
                      "ck_chunk_versions_attempt_lease"}
      /\ <<"document_chunk_versions", "index", c>> \in LaterObjects
           <=> c = "uq_chunk_versions_processing_document"
      /\ <<"document_chunk_versions", "references", c>> \notin LaterObjects
  BY DEF LaterObjects, SearchObjects, VersionObjects, StatusObjects, PageObjects,
     FilterObjects, RerankObjects, TimingObjects
<1>4. /\ <<"retrieval_traces", "column", c>> \in LaterObjects
           <=> c \in {"metadata_filters", "reranker_model", "stage_timings_ms"}
      /\ <<"retrieval_traces", "constraint", c>> \notin LaterObjects
      /\ <<"retrieval_traces", "index", c>> \notin LaterObjects
      /\ <<"retrieval_traces", "references", c>> \notin LaterObjects
  BY DEF LaterObjects, SearchObjects, VersionObjects, StatusObjects, PageObjects,
     FilterObjects, RerankObjects, TimingObjects
<1>5. /\ <<"retrieval_trace_results", "column", c>> \in LaterObjects
           <=> c \in {"candidate_rank", "rerank_rank", "rerank_score"}
      /\ <<"retrieval_trace_results", "constraint", c>> \in LaterObjects
           <=> c = "ck_retrieval_trace_results_rerank"
      /\ <<"retrieval_trace_results", "index", c>> \notin LaterObjects
      /\ <<"retrieval_trace_results", "references", c>> \notin LaterObjects
  BY DEF LaterObjects, SearchObjects, VersionObjects, StatusObjects, PageObjects,
     FilterObjects, RerankObjects, TimingObjects
<1> QED
  BY <1>1, <1>2, <1>3, <1>4, <1>5

\* A table that is created with an index, and dropped again.
MadeBy(t, rs, create, indexed, unindexed, drop) ==
  \E cs, ks, i :
    /\ Fresh(t) = Table(t, cs, ks, {i}, rs)
    /\ create = CreateTable(t, cs, ks, rs) /\ indexed = CreateIndex(t, i)
    /\ unindexed = DropIndex(t, i) /\ drop = DropTable(t)

LEMMA SimpleTables ==
  /\ MadeBy("chunk_embeddings", {"document_chunks"},
            Upgrade_0004[1], Upgrade_0004[2], Downgrade_0004[1], Downgrade_0004[2])
  /\ MadeBy("evaluation_datasets", {"knowledge_bases"},
            Upgrade_0007[1], Upgrade_0007[2], Downgrade_0007[5], Downgrade_0007[6])
  /\ MadeBy("evaluation_cases", {"evaluation_datasets"},
            Upgrade_0007[3], Upgrade_0007[4], Downgrade_0007[3], Downgrade_0007[4])
  /\ MadeBy("evaluation_judgments", {"evaluation_cases"},
            Upgrade_0007[5], Upgrade_0007[6], Downgrade_0007[1], Downgrade_0007[2])
  /\ MadeBy("evaluation_runs", {"knowledge_bases"},
            Upgrade_0008[1], Upgrade_0008[2], Downgrade_0008[3], Downgrade_0008[4])
  /\ MadeBy("evaluation_run_cases", {"evaluation_runs"},
            Upgrade_0008[3], Upgrade_0008[4], Downgrade_0008[1], Downgrade_0008[2])
  /\ MadeBy("evaluation_baselines", {"knowledge_bases", "evaluation_datasets", "evaluation_runs"},
            Upgrade_0009[1], Upgrade_0009[2], Downgrade_0009[1], Downgrade_0009[2])
<1>1. MadeBy("chunk_embeddings", {"document_chunks"},
             Upgrade_0004[1], Upgrade_0004[2], Downgrade_0004[1], Downgrade_0004[2])
  BY FreshRecords DEF MadeBy, ChunkEmbeddingRecord, Upgrade_0004, Downgrade_0004
<1>2. MadeBy("evaluation_datasets", {"knowledge_bases"},
             Upgrade_0007[1], Upgrade_0007[2], Downgrade_0007[5], Downgrade_0007[6])
  BY FreshRecords DEF MadeBy, EvaluationDatasetRecord, Upgrade_0007, Downgrade_0007
<1>3. MadeBy("evaluation_cases", {"evaluation_datasets"},
             Upgrade_0007[3], Upgrade_0007[4], Downgrade_0007[3], Downgrade_0007[4])
  BY FreshRecords DEF MadeBy, EvaluationCaseRecord, Upgrade_0007, Downgrade_0007
<1>4. MadeBy("evaluation_judgments", {"evaluation_cases"},
             Upgrade_0007[5], Upgrade_0007[6], Downgrade_0007[1], Downgrade_0007[2])
  BY FreshRecords DEF MadeBy, EvaluationJudgmentRecord, Upgrade_0007, Downgrade_0007
<1>5. MadeBy("evaluation_runs", {"knowledge_bases"},
             Upgrade_0008[1], Upgrade_0008[2], Downgrade_0008[3], Downgrade_0008[4])
  BY FreshRecords DEF MadeBy, EvaluationRunRecord, Upgrade_0008, Downgrade_0008
<1>6. MadeBy("evaluation_run_cases", {"evaluation_runs"},
             Upgrade_0008[3], Upgrade_0008[4], Downgrade_0008[1], Downgrade_0008[2])
  BY FreshRecords DEF MadeBy, EvaluationRunCaseRecord, Upgrade_0008, Downgrade_0008
<1>7. MadeBy("evaluation_baselines",
             {"knowledge_bases", "evaluation_datasets", "evaluation_runs"},
             Upgrade_0009[1], Upgrade_0009[2], Downgrade_0009[1], Downgrade_0009[2])
  BY FreshRecords DEF MadeBy, EvaluationBaselineRecord, Upgrade_0009, Downgrade_0009
<1> QED
  BY <1>1, <1>2, <1>3, <1>4, <1>5, <1>6, <1>7

LEMMA DocumentsMade ==
  MadeBy("documents", {"knowledge_bases"},
         Upgrade_0002[1], Upgrade_0002[2], Downgrade_0002[1], Downgrade_0002[2])
<1> DEFINE cs == {"id", "knowledge_base_id", "filename", "media_type", "size_bytes", "created_at"}
           ks == {"ck_documents_size_bytes_bounds", "ck_documents_supported_media_type"}
           i == "ix_documents_knowledge_base_created_id"
           rs == {"knowledge_bases"}
<1>1. /\ Upgrade_0002[1] = CreateTable("documents", cs, ks, rs)
      /\ Upgrade_0002[2] = CreateIndex("documents", i)
      /\ Downgrade_0002[1] = DropIndex("documents", i)
      /\ Downgrade_0002[2] = DropTable("documents")
  BY DEF Upgrade_0002, Downgrade_0002
<1>2. PICK cs0, ks0 :
        /\ DocumentRecord = Table("documents", cs0, ks0, {i}, rs)
        /\ \A c : c \in cs <=> c \in cs0 /\ c # "active_chunk_version"
        /\ \A c : c \in ks <=> c \in ks0 /\ c # "ck_documents_active_chunk_version"
  <2> DEFINE cs0 == {"id", "knowledge_base_id", "filename", "media_type", "size_bytes",
                     "active_chunk_version", "created_at"}
             ks0 == {"ck_documents_size_bytes_bounds", "ck_documents_supported_media_type",
                     "ck_documents_active_chunk_version"}
  <2>1. DocumentRecord = Table("documents", cs0, ks0, {i}, rs)
    BY DEF DocumentRecord
  <2>2. \A c : c \in cs <=> c \in cs0 /\ c # "active_chunk_version"
    OBVIOUS
  <2>3. \A c : c \in ks <=> c \in ks0 /\ c # "ck_documents_active_chunk_version"
    OBVIOUS
  <2> HIDE DEF cs0, ks0, cs, ks
  <2> QED
    BY <2>1, <2>2, <2>3
<1> HIDE DEF cs, ks, i, rs
<1>3. /\ \A c : <<"documents", "column", c>> \in LaterObjects <=> c = "active_chunk_version"
      /\ \A c : <<"documents", "constraint", c>> \in LaterObjects
                  <=> c = "ck_documents_active_chunk_version"
      /\ \A c : <<"documents", "index", c>> \notin LaterObjects
      /\ \A c : <<"documents", "references", c>> \notin LaterObjects
  BY LaterOf
<1>4. Fresh("documents") = Table("documents", cs, ks, {i}, rs)
  <2>1. \A o : o \in Declared /\ o[1] = "documents" <=> o \in Table("documents", cs0, ks0, {i}, rs)
    BY <1>2, DeclaredOf
  <2>2. <<"documents", "table", "documents">> \notin LaterObjects
    BY LaterObjectsAre
  <2> QED
    BY <1>2, <1>3, <2>1, <2>2, FreshIs
<1>5. MadeBy("documents", rs,
             Upgrade_0002[1], Upgrade_0002[2], Downgrade_0002[1], Downgrade_0002[2])
  BY <1>1, <1>4 DEF MadeBy
<1> QED
  BY <1>5 DEF rs

LEMMA TracesMade ==
  MadeBy("retrieval_traces", {"knowledge_bases"},
         Upgrade_0006[1], Upgrade_0006[2], Downgrade_0006[3], Downgrade_0006[4])
<1> DEFINE cs == {"id", "knowledge_base_id", "mode", "query", "top_k", "candidate_k", "rrf_k",
                  "duration_ms", "embedding_provider", "embedding_model", "embedding_dimensions",
                  "created_at"}
           ks == {"ck_retrieval_traces_mode", "ck_retrieval_traces_query_length",
                  "ck_retrieval_traces_top_k", "ck_retrieval_traces_duration",
                  "ck_retrieval_traces_hybrid_config", "ck_retrieval_traces_embedding_space"}
           i == "ix_retrieval_traces_knowledge_base_created_id"
           rs == {"knowledge_bases"}
<1>1. /\ Upgrade_0006[1] = CreateTable("retrieval_traces", cs, ks, rs)
      /\ Upgrade_0006[2] = CreateIndex("retrieval_traces", i)
      /\ Downgrade_0006[3] = DropIndex("retrieval_traces", i)
      /\ Downgrade_0006[4] = DropTable("retrieval_traces")
  BY DEF Upgrade_0006, Downgrade_0006
<1>2. PICK cs0, ks0 :
        /\ RetrievalTraceRecord = Table("retrieval_traces", cs0, ks0, {i}, rs)
        /\ \A c : c \in cs <=> c \in cs0 /\ c \notin {"metadata_filters", "reranker_model",
                                                      "stage_timings_ms"}
        /\ \A c : c \in ks <=> c \in ks0
  <2> DEFINE cs0 == {"id", "knowledge_base_id", "mode", "query", "top_k", "candidate_k", "rrf_k",
                     "duration_ms", "embedding_provider", "embedding_model",
                     "embedding_dimensions", "created_at", "metadata_filters", "reranker_model",
                     "stage_timings_ms"}
             ks0 == {"ck_retrieval_traces_mode", "ck_retrieval_traces_query_length",
                     "ck_retrieval_traces_top_k", "ck_retrieval_traces_duration",
                     "ck_retrieval_traces_hybrid_config", "ck_retrieval_traces_embedding_space"}
  <2>1. RetrievalTraceRecord = Table("retrieval_traces", cs0, ks0, {i}, rs)
    BY DEF RetrievalTraceRecord
  <2>2. \A c : c \in cs <=> c \in cs0 /\ c \notin {"metadata_filters", "reranker_model",
                                                   "stage_timings_ms"}
    OBVIOUS
  <2>3. \A c : c \in ks <=> c \in ks0
    OBVIOUS
  <2> HIDE DEF cs0, ks0, cs, ks
  <2> QED
    BY <2>1, <2>2, <2>3
<1> HIDE DEF cs, ks, i, rs
<1>3. /\ \A c : <<"retrieval_traces", "column", c>> \in LaterObjects
                  <=> c \in {"metadata_filters", "reranker_model", "stage_timings_ms"}
      /\ \A c : <<"retrieval_traces", "constraint", c>> \notin LaterObjects
      /\ \A c : <<"retrieval_traces", "index", c>> \notin LaterObjects
      /\ \A c : <<"retrieval_traces", "references", c>> \notin LaterObjects
  BY LaterOf
<1>4. Fresh("retrieval_traces") = Table("retrieval_traces", cs, ks, {i}, rs)
  <2>1. \A o : o \in Declared /\ o[1] = "retrieval_traces"
                 <=> o \in Table("retrieval_traces", cs0, ks0, {i}, rs)
    BY <1>2, DeclaredOf
  <2>2. <<"retrieval_traces", "table", "retrieval_traces">> \notin LaterObjects
    BY LaterObjectsAre
  <2> QED
    BY <1>2, <1>3, <2>1, <2>2, FreshIs
<1>5. MadeBy("retrieval_traces", rs,
             Upgrade_0006[1], Upgrade_0006[2], Downgrade_0006[3], Downgrade_0006[4])
  BY <1>1, <1>4 DEF MadeBy
<1> QED
  BY <1>5 DEF rs

LEMMA TraceResultsMade ==
  MadeBy("retrieval_trace_results", {"retrieval_traces"},
         Upgrade_0006[3], Upgrade_0006[4], Downgrade_0006[1], Downgrade_0006[2])
<1> DEFINE cs == {"id", "trace_id", "rank", "chunk_id", "document_id", "chunk_index", "text",
                  "start_offset", "end_offset", "cosine_similarity", "keyword_score", "rrf_score",
                  "vector_rank", "keyword_rank"}
           ks == {"ck_retrieval_trace_results_rank", "ck_retrieval_trace_results_chunk_index",
                  "ck_retrieval_trace_results_offsets", "ck_retrieval_trace_results_text",
                  "uq_retrieval_trace_results_trace_rank",
                  "uq_retrieval_trace_results_trace_chunk"}
           i == "ix_retrieval_trace_results_trace_rank"
           rs == {"retrieval_traces"}
<1>1. /\ Upgrade_0006[3] = CreateTable("retrieval_trace_results", cs, ks, rs)
      /\ Upgrade_0006[4] = CreateIndex("retrieval_trace_results", i)
      /\ Downgrade_0006[1] = DropIndex("retrieval_trace_results", i)
      /\ Downgrade_0006[2] = DropTable("retrieval_trace_results")
  BY DEF Upgrade_0006, Downgrade_0006
<1>2. PICK cs0, ks0 :
        /\ RetrievalTraceResultRecord = Table("retrieval_trace_results", cs0, ks0, {i}, rs)
        /\ \A c : c \in cs <=> c \in cs0 /\ c \notin {"candidate_rank", "rerank_rank",
                                                      "rerank_score"}
        /\ \A c : c \in ks <=> c \in ks0 /\ c # "ck_retrieval_trace_results_rerank"
  <2> DEFINE cs0 == {"id", "trace_id", "rank", "chunk_id", "document_id", "chunk_index", "text",
                     "start_offset", "end_offset", "cosine_similarity", "keyword_score",
                     "rrf_score", "vector_rank", "keyword_rank", "candidate_rank", "rerank_rank",
                     "rerank_score"}
             ks0 == {"ck_retrieval_trace_results_rank", "ck_retrieval_trace_results_chunk_index",
                     "ck_retrieval_trace_results_offsets", "ck_retrieval_trace_results_text",
                     "ck_retrieval_trace_results_rerank", "uq_retrieval_trace_results_trace_rank",
                     "uq_retrieval_trace_results_trace_chunk"}
  <2>1. RetrievalTraceResultRecord = Table("retrieval_trace_results", cs0, ks0, {i}, rs)
    BY DEF RetrievalTraceResultRecord
  <2>2. \A c : c \in cs <=> c \in cs0 /\ c \notin {"candidate_rank", "rerank_rank",
                                                   "rerank_score"}
    OBVIOUS
  <2>3. \A c : c \in ks <=> c \in ks0 /\ c # "ck_retrieval_trace_results_rerank"
    OBVIOUS
  <2> HIDE DEF cs0, ks0, cs, ks
  <2> QED
    BY <2>1, <2>2, <2>3
<1> HIDE DEF cs, ks, i, rs
<1>3. /\ \A c : <<"retrieval_trace_results", "column", c>> \in LaterObjects
                  <=> c \in {"candidate_rank", "rerank_rank", "rerank_score"}
      /\ \A c : <<"retrieval_trace_results", "constraint", c>> \in LaterObjects
                  <=> c = "ck_retrieval_trace_results_rerank"
      /\ \A c : <<"retrieval_trace_results", "index", c>> \notin LaterObjects
      /\ \A c : <<"retrieval_trace_results", "references", c>> \notin LaterObjects
  BY LaterOf
<1>4. Fresh("retrieval_trace_results") = Table("retrieval_trace_results", cs, ks, {i}, rs)
  <2>1. \A o : o \in Declared /\ o[1] = "retrieval_trace_results"
                 <=> o \in Table("retrieval_trace_results", cs0, ks0, {i}, rs)
    BY <1>2, DeclaredOf
  <2>2. <<"retrieval_trace_results", "table", "retrieval_trace_results">> \notin LaterObjects
    BY LaterObjectsAre
  <2> QED
    BY <1>2, <1>3, <2>1, <2>2, FreshIs
<1>5. MadeBy("retrieval_trace_results", rs,
             Upgrade_0006[3], Upgrade_0006[4], Downgrade_0006[1], Downgrade_0006[2])
  BY <1>1, <1>4 DEF MadeBy
<1> QED
  BY <1>5 DEF rs

\* The versions of chunks are created without an index.
LEMMA VersionsMade ==
  \E cs, ks :
    /\ Fresh("document_chunk_versions")
         = Table("document_chunk_versions", cs, ks, {}, {"documents"})
    /\ Upgrade_0011[3] = CreateTable("document_chunk_versions", cs, ks, {"documents"})
<1> DEFINE cs == {"document_id", "version", "chunk_count", "created_at"}
           ks == {"ck_chunk_versions_version", "ck_chunk_versions_chunk_count"}
           i == "uq_chunk_versions_processing_document"
           rs == {"documents"}
<1>1. Upgrade_0011[3] = CreateTable("document_chunk_versions", cs, ks, rs)
  BY DEF Upgrade_0011
<1>2. PICK cs0, ks0 :
        /\ DocumentChunkVersionRecord = Table("document_chunk_versions", cs0, ks0, {i}, rs)
        /\ \A c : c \in cs <=> c \in cs0 /\ c \notin {"status", "attempt_id", "lease_expires_at",
                                                      "attempt_count"}
        /\ \A c : c \in ks <=> c \in ks0 /\ c \notin {"ck_chunk_versions_status",
                                                      "ck_chunk_versions_attempt_count",
                                                      "ck_chunk_versions_attempt_lease"}
  <2> DEFINE cs0 == {"document_id", "version", "chunk_count", "created_at", "status",
                     "attempt_id", "lease_expires_at", "attempt_count"}
             ks0 == {"ck_chunk_versions_version", "ck_chunk_versions_chunk_count",
                     "ck_chunk_versions_status", "ck_chunk_versions_attempt_count",
                     "ck_chunk_versions_attempt_lease"}
  <2>1. DocumentChunkVersionRecord = Table("document_chunk_versions", cs0, ks0, {i}, rs)
    BY DEF DocumentChunkVersionRecord
  <2>2. \A c : c \in cs <=> c \in cs0 /\ c \notin {"status", "attempt_id", "lease_expires_at",
                                                   "attempt_count"}
    OBVIOUS
  <2>3. \A c : c \in ks <=> c \in ks0 /\ c \notin {"ck_chunk_versions_status",
                                                   "ck_chunk_versions_attempt_count",
                                                   "ck_chunk_versions_attempt_lease"}
    OBVIOUS
  <2> HIDE DEF cs0, ks0, cs, ks
  <2> QED
    BY <2>1, <2>2, <2>3
<1> HIDE DEF cs, ks, rs
<1>3. /\ \A c : <<"document_chunk_versions", "column", c>> \in LaterObjects
                  <=> c \in {"status", "attempt_id", "lease_expires_at", "attempt_count"}
      /\ \A c : <<"document_chunk_versions", "constraint", c>> \in LaterObjects
                  <=> c \in {"ck_chunk_versions_status", "ck_chunk_versions_attempt_count",
                             "ck_chunk_versions_attempt_lease"}
      /\ \A c : <<"document_chunk_versions", "index", c>> \in LaterObjects <=> c = i
      /\ \A c : <<"document_chunk_versions", "references", c>> \notin LaterObjects
  BY LaterOf
<1>4. Fresh("document_chunk_versions") = Table("document_chunk_versions", cs, ks, {}, rs)
  <2>1. \A o : o \in Declared /\ o[1] = "document_chunk_versions"
                 <=> o \in Table("document_chunk_versions", cs0, ks0, {i}, rs)
    BY <1>2, DeclaredOf
  <2>2. <<"document_chunk_versions", "table", "document_chunk_versions">> \notin LaterObjects
    BY LaterObjectsAre
  <2>3. \A c : c \in {} <=> c \in {i} /\ <<"document_chunk_versions", "index", c>> \notin LaterObjects
    BY <1>3
  <2> HIDE DEF i
  <2> QED
    BY <1>2, <1>3, <2>1, <2>2, <2>3, FreshIs
<1> QED
  BY <1>1, <1>4 DEF rs

\* The table of chunks is created with the constraint that migration 0011 replaces.
LEMMA ChunksMade ==
  MadeBy("document_chunks", {"documents"},
         Upgrade_0003[1], Upgrade_0003[2], Downgrade_0003[1], Downgrade_0003[2])
<1> DEFINE cs == {"id", "document_id", "chunk_index", "text", "start_offset", "end_offset"}
           ks == {"ck_document_chunks_index_bounds", "ck_document_chunks_offset_order",
                  "ck_document_chunks_offset_span", "ck_document_chunks_text_length",
                  "uq_document_chunks_document_index"}
           i == "ix_document_chunks_document_offsets"
           j == "ix_document_chunks_search_vector"
           old == "uq_document_chunks_document_index"
           rs == {"documents"}
<1>1. /\ Upgrade_0003[1] = CreateTable("document_chunks", cs, ks, rs)
      /\ Upgrade_0003[2] = CreateIndex("document_chunks", i)
      /\ Downgrade_0003[1] = DropIndex("document_chunks", i)
      /\ Downgrade_0003[2] = DropTable("document_chunks")
  BY DEF Upgrade_0003, Downgrade_0003
<1>2. PICK cs0, ks0, rs0 :
        /\ DocumentChunkRecord = Table("document_chunks", cs0, ks0, {i, j}, rs0)
        /\ \A c : c \in cs <=>
          c \in cs0
            /\ c \notin {"search_vector", "chunk_version", "page_start", "page_end", "ocr_used"}
        /\ \A c : c \in ks <=>
          (c \in ks0 \/ c = old)
            /\ c \notin {"ck_document_chunks_version",
                         "uq_document_chunks_document_version_index",
                         "fk_document_chunks_version", "ck_document_chunks_pdf_page_range",
                         "ck_document_chunks_ocr_has_page"}
        /\ \A c : c \in rs <=> c \in rs0 /\ c # "document_chunk_versions"
  <2> DEFINE cs0 == {"id", "document_id", "chunk_index", "chunk_version", "text", "search_vector",
                     "start_offset", "end_offset", "page_start", "page_end", "ocr_used"}
             ks0 == {"ck_document_chunks_index_bounds", "ck_document_chunks_offset_order",
                     "ck_document_chunks_offset_span", "ck_document_chunks_text_length",
                     "uq_document_chunks_document_version_index", "ck_document_chunks_version",
                     "ck_document_chunks_pdf_page_range", "ck_document_chunks_ocr_has_page",
                     "fk_document_chunks_version"}
             rs0 == {"document_chunk_versions", "documents"}
  <2>1. DocumentChunkRecord = Table("document_chunks", cs0, ks0, {i, j}, rs0)
    BY DEF DocumentChunkRecord
  <2>2. \A c : c \in cs <=>
          c \in cs0
            /\ c \notin {"search_vector", "chunk_version", "page_start", "page_end", "ocr_used"}
    OBVIOUS
  <2>3. \A c : c \in ks <=>
          (c \in ks0 \/ c = old)
            /\ c \notin {"ck_document_chunks_version",
                         "uq_document_chunks_document_version_index",
                         "fk_document_chunks_version", "ck_document_chunks_pdf_page_range",
                         "ck_document_chunks_ocr_has_page"}
    OBVIOUS
  <2>4. \A c : c \in rs <=> c \in rs0 /\ c # "document_chunk_versions"
    OBVIOUS
  <2> HIDE DEF cs0, ks0, rs0, cs, ks, rs
  <2> QED
    BY <2>1, <2>2, <2>3, <2>4
<1>3. j # i
  OBVIOUS
<1>4. /\ \A c : <<"document_chunks", "column", c>> \in LaterObjects
                  <=> c \in {"search_vector", "chunk_version", "page_start", "page_end", "ocr_used"}
      /\ \A c : <<"document_chunks", "constraint", c>> \in LaterObjects
                  <=> c \in {"ck_document_chunks_version",
                             "uq_document_chunks_document_version_index",
                             "fk_document_chunks_version", "ck_document_chunks_pdf_page_range",
                             "ck_document_chunks_ocr_has_page"}
      /\ \A c : <<"document_chunks", "index", c>> \in LaterObjects <=> c = j
      /\ \A c : <<"document_chunks", "references", c>> \in LaterObjects
                  <=> c = "document_chunk_versions"
  BY LaterOf
<1>5. OldUnique = <<"document_chunks", "constraint", old>>
  BY DEF OldUnique
<1> HIDE DEF cs, ks, i, j, rs, old
<1>6. Fresh("document_chunks") = Table("document_chunks", cs, ks, {i}, rs)
  <2>1. \A o : o \in DocumentChunkRecord \cup {OldUnique}
                 <=> o \in Table("document_chunks", cs0, ks0 \cup {old}, {i, j}, rs0)
    <3>1. \A o : o \in DocumentChunkRecord \cup {OldUnique}
                   <=> o \in Table("document_chunks", cs0, ks0, {i, j}, rs0) \/ o = OldUnique
      BY <1>2
    <3> QED
      BY <1>5, <3>1, TableHas
  <2>2. \A o : o \in Declared /\ o[1] = "document_chunks"
                 <=> o \in Table("document_chunks", cs0, ks0 \cup {old}, {i, j}, rs0)
    BY <2>1, DeclaredOf
  <2>3. <<"document_chunks", "table", "document_chunks">> \notin LaterObjects
    BY LaterObjectsAre
  <2>4. /\ \A c : c \in {i} <=> c \in {i, j} /\ <<"document_chunks", "index", c>> \notin LaterObjects
        /\ \A c : c \in ks <=> c \in ks0 \cup {old}
                                /\ <<"document_chunks", "constraint", c>> \notin LaterObjects
    BY <1>2, <1>3, <1>4
  <2> QED
    BY <1>2, <1>4, <2>2, <2>3, <2>4, FreshIs
<1>7. MadeBy("document_chunks", rs,
             Upgrade_0003[1], Upgrade_0003[2], Downgrade_0003[1], Downgrade_0003[2])
  BY <1>1, <1>6 DEF MadeBy
<1> QED
  BY <1>7 DEF rs

\* What was added later is declared.
LEMMA LaterDeclared == LaterObjects \subseteq Declared
<1>1. /\ <<"documents", "column", "active_chunk_version">> \in DocumentRecord
      /\ <<"documents", "constraint", "ck_documents_active_chunk_version">> \in DocumentRecord
  <2>1. PICK cs, ks, is, rs :
          /\ DocumentRecord = Table("documents", cs, ks, is, rs)
          /\ "active_chunk_version" \in cs /\ "ck_documents_active_chunk_version" \in ks
    BY DEF DocumentRecord
  <2> QED
    BY <2>1, TableIs
<1>2. /\ <<"document_chunks", "column", "search_vector">> \in DocumentChunkRecord
      /\ <<"document_chunks", "column", "chunk_version">> \in DocumentChunkRecord
      /\ <<"document_chunks", "column", "page_start">> \in DocumentChunkRecord
      /\ <<"document_chunks", "column", "page_end">> \in DocumentChunkRecord
      /\ <<"document_chunks", "column", "ocr_used">> \in DocumentChunkRecord
      /\ <<"document_chunks", "constraint", "ck_document_chunks_version">> \in DocumentChunkRecord
      /\ <<"document_chunks", "constraint", "uq_document_chunks_document_version_index">>
           \in DocumentChunkRecord
      /\ <<"document_chunks", "constraint", "fk_document_chunks_version">> \in DocumentChunkRecord
      /\ <<"document_chunks", "constraint", "ck_document_chunks_pdf_page_range">>
           \in DocumentChunkRecord
      /\ <<"document_chunks", "constraint", "ck_document_chunks_ocr_has_page">>
           \in DocumentChunkRecord
      /\ <<"document_chunks", "index", "ix_document_chunks_search_vector">> \in DocumentChunkRecord
      /\ <<"document_chunks", "references", "document_chunk_versions">> \in DocumentChunkRecord
  <2>1. PICK cs, ks, is, rs :
          /\ DocumentChunkRecord = Table("document_chunks", cs, ks, is, rs)
          /\ "search_vector" \in cs /\ "chunk_version" \in cs /\ "page_start" \in cs
          /\ "page_end" \in cs /\ "ocr_used" \in cs
          /\ "ck_document_chunks_version" \in ks
          /\ "uq_document_chunks_document_version_index" \in ks
          /\ "fk_document_chunks_version" \in ks /\ "ck_document_chunks_pdf_page_range" \in ks
          /\ "ck_document_chunks_ocr_has_page" \in ks
          /\ "ix_document_chunks_search_vector" \in is /\ "document_chunk_versions" \in rs
    BY DEF DocumentChunkRecord
  <2> QED
    BY <2>1, TableIs
<1>3. StatusObjects \subseteq DocumentChunkVersionRecord
  <2>1. PICK cs, ks, is, rs :
          /\ DocumentChunkVersionRecord = Table("document_chunk_versions", cs, ks, is, rs)
          /\ "status" \in cs /\ "attempt_id" \in cs /\ "lease_expires_at" \in cs
          /\ "attempt_count" \in cs
          /\ "ck_chunk_versions_status" \in ks /\ "ck_chunk_versions_attempt_count" \in ks
          /\ "ck_chunk_versions_attempt_lease" \in ks
          /\ "uq_chunk_versions_processing_document" \in is
    BY DEF DocumentChunkVersionRecord
  <2>2. /\ <<"document_chunk_versions", "column", "status">> \in DocumentChunkVersionRecord
        /\ <<"document_chunk_versions", "column", "attempt_id">> \in DocumentChunkVersionRecord
        /\ <<"document_chunk_versions", "column", "lease_expires_at">>
             \in DocumentChunkVersionRecord
        /\ <<"document_chunk_versions", "column", "attempt_count">> \in DocumentChunkVersionRecord
        /\ <<"document_chunk_versions", "constraint", "ck_chunk_versions_status">>
             \in DocumentChunkVersionRecord
        /\ <<"document_chunk_versions", "constraint", "ck_chunk_versions_attempt_count">>
             \in DocumentChunkVersionRecord
        /\ <<"document_chunk_versions", "constraint", "ck_chunk_versions_attempt_lease">>
             \in DocumentChunkVersionRecord
        /\ <<"document_chunk_versions", "index", "uq_chunk_versions_processing_document">>
             \in DocumentChunkVersionRecord
    BY <2>1, TableIs
  <2> QED
    BY <2>2 DEF StatusObjects
<1>4. /\ <<"retrieval_traces", "column", "metadata_filters">> \in RetrievalTraceRecord
      /\ <<"retrieval_traces", "column", "reranker_model">> \in RetrievalTraceRecord
      /\ <<"retrieval_traces", "column", "stage_timings_ms">> \in RetrievalTraceRecord
  <2>1. PICK cs, ks, is, rs :
          /\ RetrievalTraceRecord = Table("retrieval_traces", cs, ks, is, rs)
          /\ "metadata_filters" \in cs /\ "reranker_model" \in cs /\ "stage_timings_ms" \in cs
    BY DEF RetrievalTraceRecord
  <2> QED
    BY <2>1, TableIs
<1>5. /\ <<"retrieval_trace_results", "column", "candidate_rank">> \in RetrievalTraceResultRecord
      /\ <<"retrieval_trace_results", "column", "rerank_rank">> \in RetrievalTraceResultRecord
      /\ <<"retrieval_trace_results", "column", "rerank_score">> \in RetrievalTraceResultRecord
      /\ <<"retrieval_trace_results", "constraint", "ck_retrieval_trace_results_rerank">>
           \in RetrievalTraceResultRecord
  <2>1. PICK cs, ks, is, rs :
          /\ RetrievalTraceResultRecord = Table("retrieval_trace_results", cs, ks, is, rs)
          /\ "candidate_rank" \in cs /\ "rerank_rank" \in cs /\ "rerank_score" \in cs
          /\ "ck_retrieval_trace_results_rerank" \in ks
    BY DEF RetrievalTraceResultRecord
  <2> QED
    BY <2>1, TableIs
<1>6. /\ DocumentRecord \subseteq Declared /\ DocumentChunkRecord \subseteq Declared
      /\ DocumentChunkVersionRecord \subseteq Declared /\ RetrievalTraceRecord \subseteq Declared
      /\ RetrievalTraceResultRecord \subseteq Declared
  BY DEF Declared, TargetMetadata
<1>7. SearchObjects \subseteq DocumentChunkRecord
  BY <1>2 DEF SearchObjects
<1>8. VersionObjects \subseteq DocumentRecord \cup DocumentChunkRecord
  BY <1>1, <1>2 DEF VersionObjects
<1>9. PageObjects \subseteq DocumentChunkRecord
  BY <1>2 DEF PageObjects
<1>10. /\ FilterObjects \subseteq RetrievalTraceRecord
       /\ TimingObjects \subseteq RetrievalTraceRecord
       /\ RerankObjects \subseteq RetrievalTraceRecord \cup RetrievalTraceResultRecord
  BY <1>4, <1>5 DEF FilterObjects, TimingObjects, RerankObjects
<1> QED
  BY <1>3, <1>6, <1>7, <1>8, <1>9, <1>10 DEF LaterObjects

\* What a revision that changes tables adds.
LEMMA NewObjects ==
  /\ New(5) = SearchObjects
  /\ New(11) = VersionObjects \cup Fresh("document_chunk_versions")
  /\ New(12) = StatusObjects /\ New(13) = PageObjects /\ New(14) = FilterObjects
  /\ New(15) = RerankObjects /\ New(16) = TimingObjects
<1>1. /\ SearchObjects \subseteq Declared /\ VersionObjects \subseteq Declared
      /\ StatusObjects \subseteq Declared /\ PageObjects \subseteq Declared
      /\ FilterObjects \subseteq Declared /\ RerankObjects \subseteq Declared
      /\ TimingObjects \subseteq Declared
  BY LaterDeclared DEF LaterObjects
<1>2. \A t : Born(t) \notin {5, 12, 13, 14, 15, 16}
  BY DEF Born
<1>3. \A t \in TableNames : Born(t) = 11 <=> t = "document_chunk_versions"
  BY BornIs DEF TableNames
<1>4. \A o \in Declared : o[1] \in TableNames
  BY DeclaredOf
<1>5. \A o : o \in LaterObjects <=>
        \/ o \in SearchObjects \/ o \in VersionObjects \/ o \in StatusObjects
        \/ o \in PageObjects \/ o \in FilterObjects \/ o \in RerankObjects \/ o \in TimingObjects
  BY DEF LaterObjects
<1>6. \A o : /\ Since(o) = 5 => o \in SearchObjects
             /\ Since(o) = 12 => o \in StatusObjects
             /\ Since(o) = 13 => o \in PageObjects
             /\ Since(o) = 14 => o \in FilterObjects
             /\ Since(o) = 15 => o \in RerankObjects
             /\ Since(o) = 16 => o \in TimingObjects
             /\ Since(o) = 11 => o \in VersionObjects \/ (o \notin LaterObjects /\ Born(o[1]) = 11)
  BY <1>2, <1>5, SinceIs
<1>7. /\ New(5) = SearchObjects /\ New(12) = StatusObjects /\ New(13) = PageObjects
      /\ New(14) = FilterObjects /\ New(15) = RerankObjects /\ New(16) = TimingObjects
  BY <1>1, <1>6, SinceIs DEF New
<1>8. New(11) = VersionObjects \cup Fresh("document_chunk_versions")
  <2>1. \A o \in Fresh("document_chunk_versions") : o \in Declared /\ Since(o) = 11
    BY SinceIs, BornIs DEF Fresh
  <2>2. \A o \in Declared : Since(o) = 11 =>
          o \in VersionObjects \cup Fresh("document_chunk_versions")
    BY <1>3, <1>4, <1>6 DEF Fresh
  <2> QED
    BY <1>1, <2>1, <2>2, SinceIs DEF New
<1> QED
  BY <1>7, <1>8

-----------------------------------------------------------------------------
\* What a revision does to a schema: its upgrade only adds, its downgrade only
\* takes away.
Climbs(steps, s, t) ==
  \E S, L : /\ L \in Nat /\ Len(steps) = L /\ S[1] = s /\ S[L + 1] = t
            /\ \A n \in 1 .. L : Turns(S[n], steps[n], S[n + 1]) /\ Grows(steps[n])

Falls(steps, s, t) ==
  \E S, L : /\ L \in Nat /\ Len(steps) = L /\ S[1] = s /\ S[L + 1] = t
            /\ \A n \in 1 .. L : Turns(S[n], steps[n], S[n + 1]) /\ Shrinks(steps[n])

LEMMA PairedIs ==
  ASSUME NEW S, NEW L, NEW up, NEW down, Paired(S, L, up, down)
  PROVE  Climbs(up, S[1], S[L + 1]) /\ Falls(down, S[L + 1], S[1])
<1>1. /\ L \in Nat /\ Len(up) = L /\ Len(down) = L
      /\ \A n \in 1 .. L :
           /\ Turns(S[n], up[n], S[n + 1]) /\ Grows(up[n])
           /\ Turns(S[n + 1], down[L + 1 - n], S[n]) /\ Shrinks(down[L + 1 - n])
  BY DEF Paired
<1>2. Climbs(up, S[1], S[L + 1])
  BY <1>1 DEF Climbs
<1> DEFINE R == [n \in 1 .. L + 1 |-> S[L + 2 - n]]
<1>3. R[1] = S[L + 1] /\ R[L + 1] = S[1]
  <2>1. /\ 1 \in 1 .. L + 1 /\ L + 1 \in 1 .. L + 1 /\ L + 2 - 1 = L + 1
        /\ L + 2 - (L + 1) = 1
    BY <1>1
  <2> QED
    BY <2>1
<1>4. ASSUME NEW n \in 1 .. L PROVE Turns(R[n], down[n], R[n + 1]) /\ Shrinks(down[n])
  <2> DEFINE m == L + 1 - n
  <2>1. /\ m \in 1 .. L /\ L + 1 - m = n /\ n \in 1 .. L + 1 /\ n + 1 \in 1 .. L + 1
        /\ L + 2 - n = m + 1 /\ L + 2 - (n + 1) = m
    BY <1>1
  <2>2. R[n] = S[m + 1] /\ R[n + 1] = S[m]
    BY <2>1
  <2> HIDE DEF m, R
  <2> QED
    BY <1>1, <2>1, <2>2
<1> HIDE DEF R
<1>5. Falls(down, S[L + 1], S[1])
  BY <1>1, <1>3, <1>4 DEF Falls
<1> QED
  BY <1>2, <1>5

\* Two revisions' worth of operations in one.
Joined(S, K, up1, down1, R, L, up2, down2, up, down) ==
  /\ Paired(S, K, up1, down1) /\ Paired(R, L, up2, down2) /\ S[K + 1] = R[1]
  /\ Len(up) = K + L /\ Len(down) = K + L
  /\ \A n \in 1 .. K : up[n] = up1[n] /\ down[L + n] = down1[n]
  /\ \A n \in 1 .. L : up[K + n] = up2[n] /\ down[n] = down2[n]

LEMMA PairedOn ==
  ASSUME NEW S, NEW K, NEW up1, NEW down1, NEW R, NEW L, NEW up2, NEW down2, NEW up, NEW down,
         Joined(S, K, up1, down1, R, L, up2, down2, up, down)
  PROVE  \E Q : Paired(Q, K + L, up, down) /\ Q[1] = S[1] /\ Q[K + L + 1] = R[L + 1]
<1> DEFINE Q == [n \in 1 .. K + L + 1 |-> IF n <= K THEN S[n] ELSE R[n - K]]
<1>1. /\ K \in Nat /\ L \in Nat
      /\ \A n \in 1 .. K :
           /\ Turns(S[n], up1[n], S[n + 1]) /\ Grows(up1[n])
           /\ Turns(S[n + 1], down1[K + 1 - n], S[n]) /\ Shrinks(down1[K + 1 - n])
      /\ \A n \in 1 .. L :
           /\ Turns(R[n], up2[n], R[n + 1]) /\ Grows(up2[n])
           /\ Turns(R[n + 1], down2[L + 1 - n], R[n]) /\ Shrinks(down2[L + 1 - n])
      /\ S[K + 1] = R[1] /\ Len(up) = K + L /\ Len(down) = K + L
      /\ \A n \in 1 .. K : up[n] = up1[n] /\ down[L + n] = down1[n]
      /\ \A n \in 1 .. L : up[K + n] = up2[n] /\ down[n] = down2[n]
  BY DEF Joined, Paired
<1>n. K \in Nat /\ L \in Nat
  BY <1>1
<1>2. \A n \in 1 .. K + 1 : Q[n] = S[n]
  <2> SUFFICES ASSUME NEW n \in 1 .. K + 1 PROVE Q[n] = S[n]
    OBVIOUS
  <2>1. n \in 1 .. K + L + 1 /\ (n <= K \/ (n = K + 1 /\ n - K = 1 /\ ~(n <= K)))
    BY <1>n
  <2>2. CASE n <= K
    BY <2>1, <2>2
  <2>3. CASE ~(n <= K)
    BY <1>1, <2>1, <2>3
  <2> QED
    BY <2>2, <2>3
<1>3. \A n \in 1 .. L + 1 : Q[K + n] = R[n]
  <2> SUFFICES ASSUME NEW n \in 1 .. L + 1 PROVE Q[K + n] = R[n]
    OBVIOUS
  <2>1. K + n \in 1 .. K + L + 1 /\ ~(K + n <= K) /\ (K + n) - K = n
    BY <1>n
  <2> QED
    BY <2>1
<1> HIDE DEF Q
<1>4. ASSUME NEW n \in 1 .. K + L
      PROVE  /\ Turns(Q[n], up[n], Q[n + 1]) /\ Grows(up[n])
             /\ Turns(Q[n + 1], down[(K + L) + 1 - n], Q[n]) /\ Shrinks(down[(K + L) + 1 - n])
  <2>1. CASE n <= K
    <3>1. /\ n \in 1 .. K /\ n \in 1 .. K + 1 /\ n + 1 \in 1 .. K + 1 /\ K + 1 - n \in 1 .. K
          /\ (K + L) + 1 - n = L + (K + 1 - n)
      BY <1>n, <2>1
    <3>2. down[(K + L) + 1 - n] = down1[K + 1 - n] /\ up[n] = up1[n]
      BY <1>1, <3>1
    <3> QED
      BY <1>1, <1>2, <3>1, <3>2
  <2>2. CASE ~(n <= K)
    <3> DEFINE m == n - K
    <3>1. /\ m \in 1 .. L /\ m \in 1 .. L + 1 /\ m + 1 \in 1 .. L + 1 /\ L + 1 - m \in 1 .. L
          /\ n = K + m /\ n + 1 = K + (m + 1) /\ (K + L) + 1 - n = L + 1 - m
      BY <1>n, <2>2
    <3> HIDE DEF m
    <3>2. /\ down[(K + L) + 1 - n] = down2[L + 1 - m] /\ up[n] = up2[m]
          /\ Q[n] = R[m] /\ Q[n + 1] = R[m + 1]
      BY <1>1, <1>3, <3>1
    <3> QED
      BY <1>1, <3>1, <3>2
  <2> QED
    BY <2>1, <2>2
<1>5. K + L \in Nat /\ 1 \in 1 .. K + 1 /\ L + 1 \in 1 .. L + 1 /\ K + L + 1 = K + (L + 1)
  BY <1>n
<1>6. Q[1] = S[1] /\ Q[K + L + 1] = R[L + 1]
  BY <1>2, <1>3, <1>5
<1>7. Paired(Q, K + L, up, down)
  BY <1>1, <1>4, <1>5 DEF Paired
<1> QED
  BY <1>6, <1>7

OneMade(s, T, t, rs, up, down) ==
  /\ Tables(s, T) /\ t \notin T /\ rs \subseteq T /\ Len(up) = 2 /\ Len(down) = 2
  /\ MadeBy(t, rs, up[1], up[2], down[1], down[2])

LEMMA MadeTurns ==
  ASSUME NEW s, NEW T, NEW t, NEW rs, NEW up, NEW down, OneMade(s, T, t, rs, up, down)
  PROVE  /\ \E S : Paired(S, 2, up, down) /\ S[1] = s /\ S[3] = s \cup Fresh(t)
         /\ Tables(s \cup Fresh(t), T \cup {t})
<1>0. /\ Tables(s, T) /\ t \notin T /\ rs \subseteq T /\ Len(up) = 2 /\ Len(down) = 2
      /\ MadeBy(t, rs, up[1], up[2], down[1], down[2])
  BY DEF OneMade
<1>1. PICK cs, ks, i :
        /\ Fresh(t) = Table(t, cs, ks, {i}, rs)
        /\ up[1] = CreateTable(t, cs, ks, rs) /\ up[2] = CreateIndex(t, i)
        /\ down[1] = DropIndex(t, i) /\ down[2] = DropTable(t)
  BY <1>0 DEF MadeBy
<1> DEFINE up2 == <<CreateTable(t, cs, ks, rs), CreateIndex(t, i)>>
           down2 == <<DropIndex(t, i), DropTable(t)>>
<1>2. PICK S : Paired(S, 2, up2, down2) /\ S[1] = s /\ S[3] = s \cup Table(t, cs, ks, {i}, rs)
  BY <1>0, OneTable
<1>3. /\ \A n \in 1 .. 2 : up2[n] = up[n] /\ down2[n] = down[n]
      /\ \A n \in 1 .. 2 : 2 + 1 - n \in 1 .. 2
  BY <1>1
<1> HIDE DEF up2, down2
<1>4. Paired(S, 2, up, down)
  BY <1>0, <1>2, <1>3 DEF Paired
<1>5. Tables(s \cup Fresh(t), T \cup {t})
  BY <1>0, <1>1, TablesGrow
<1> QED
  BY <1>1, <1>2, <1>4, <1>5

\* What the revisions do to the schema, one by one.
Walks(r, up, down) ==
  Climbs(up, SchemaAt(r - 1), SchemaAt(r)) /\ Falls(down, SchemaAt(r), SchemaAt(r - 1))

LEMMA PairedWalks ==
  ASSUME NEW r \in 1 .. 16, r # 11, NEW up, NEW down, NEW L,
         \E S : Paired(S, L, up, down) /\ S[1] = SchemaAt(r - 1)
                                       /\ S[L + 1] = SchemaAt(r - 1) \cup New(r)
  PROVE  Walks(r, up, down)
<1>1. PICK S : Paired(S, L, up, down) /\ S[1] = SchemaAt(r - 1)
                                      /\ S[L + 1] = SchemaAt(r - 1) \cup New(r)
  OBVIOUS
<1>2. SchemaAt(r) = SchemaAt(r - 1) \cup New(r)
  BY SchemaGrows
<1> QED
  BY <1>1, <1>2, PairedIs DEF Walks

\* A revision that creates one table.
LEMMA OneTableWalks ==
  ASSUME NEW r \in 1 .. 10, NEW t, New(r) = Fresh(t), NEW rs, NEW up, NEW down,
         OneMade(SchemaAt(r - 1), TablesAt(r - 1), t, rs, up, down)
  PROVE  Walks(r, up, down)
<1> DEFINE s == SchemaAt(r - 1)
           T == TablesAt(r - 1)
<1>1. OneMade(s, T, t, rs, up, down)
  OBVIOUS
<1> HIDE DEF s, T
<1>2. /\ \E S : Paired(S, 2, up, down) /\ S[1] = s /\ S[3] = s \cup Fresh(t)
      /\ Tables(s \cup Fresh(t), T \cup {t})
  BY <1>1, MadeTurns
<1>3. r \in 1 .. 16 /\ r # 11 /\ 2 + 1 = 3
  OBVIOUS
<1> QED
  BY <1>2, <1>3, PairedWalks DEF s

LEMMA TablesThere ==
  ASSUME NEW r \in 0 .. 16
  PROVE  /\ "knowledge_bases" \in TablesAt(r) <=> r >= 1
         /\ "documents" \in TablesAt(r) <=> r >= 2
         /\ "document_chunks" \in TablesAt(r) <=> r >= 3
         /\ "chunk_embeddings" \in TablesAt(r) <=> r >= 4
         /\ "retrieval_traces" \in TablesAt(r) <=> r >= 6
         /\ "retrieval_trace_results" \in TablesAt(r) <=> r >= 6
         /\ "evaluation_datasets" \in TablesAt(r) <=> r >= 7
         /\ "evaluation_cases" \in TablesAt(r) <=> r >= 7
         /\ "evaluation_judgments" \in TablesAt(r) <=> r >= 7
         /\ "evaluation_runs" \in TablesAt(r) <=> r >= 8
         /\ "evaluation_run_cases" \in TablesAt(r) <=> r >= 8
         /\ "evaluation_baselines" \in TablesAt(r) <=> r >= 9
         /\ "evaluation_baseline_promotions" \in TablesAt(r) <=> r >= 10
         /\ "document_chunk_versions" \in TablesAt(r) <=> r >= 11
  BY BornIs DEF TablesAt, TableNames

LEMMA Walk1 == Walks(1, Upgrade_0001, Downgrade_0001)
<1>1. PICK cs :
        /\ Upgrade_0001[1] = CreateTable("knowledge_bases", cs, {}, {})
        /\ Downgrade_0001[1] = DropTable("knowledge_bases")
        /\ KnowledgeBaseRecord = Table("knowledge_bases", cs, {}, {}, {})
  BY DEF Upgrade_0001, Downgrade_0001, KnowledgeBaseRecord
<1>2. Len(Upgrade_0001) = 1 /\ Len(Downgrade_0001) = 1
  BY DEF Upgrade_0001, Downgrade_0001
<1> DEFINE s == SchemaAt(0)
           T == TablesAt(0)
           t == "knowledge_bases"
           u == s \cup Table(t, cs, {}, {}, {})
           S == <<s, u>>
<1>3. Tables(s, T) /\ t \notin T
  BY TablesAtRevision, TablesThere
<1> HIDE DEF s, T, t
<1>4. /\ Turns(s, CreateTable(t, cs, {}, {}), u) /\ Turns(u, DropTable(t), s)
      /\ Grows(CreateTable(t, cs, {}, {})) /\ Shrinks(DropTable(t))
  BY <1>3, TableTurns
<1>5. S[1] = s /\ S[2] = u
  OBVIOUS
<1>6. Paired(S, 1, Upgrade_0001, Downgrade_0001)
  <2>1. \A n \in 1 .. 1 : n = 1 /\ 1 + 1 - n = 1 /\ n + 1 = 2
    OBVIOUS
  <2> HIDE DEF S, u
  <2> QED
    BY <1>1, <1>2, <1>4, <1>5, <2>1 DEF Paired, t
<1>7. u = s \cup New(1)
  BY <1>1, NewTables, FreshRecords DEF t
<1> HIDE DEF S, u
<1>8. \E R : Paired(R, 1, Upgrade_0001, Downgrade_0001) /\ R[1] = s /\ R[1 + 1] = s \cup New(1)
  BY <1>5, <1>6, <1>7
<1>9. 1 \in 1 .. 16 /\ 1 # 11 /\ 1 - 1 = 0
  OBVIOUS
<1> QED
  BY <1>8, <1>9, PairedWalks DEF s

LEMMA Walk2 == Walks(2, Upgrade_0002, Downgrade_0002)
<1>1. Len(Upgrade_0002) = 2 /\ Len(Downgrade_0002) = 2
  BY DEF Upgrade_0002, Downgrade_0002
<1> DEFINE s == SchemaAt(2 - 1)
           T == TablesAt(2 - 1)
           rs == {"knowledge_bases"}
<1>2. Tables(s, T) /\ "documents" \notin T /\ rs \subseteq T
  BY TablesThere, TablesAtRevision
<1>3. OneMade(s, T, "documents", rs, Upgrade_0002, Downgrade_0002)
  BY <1>1, <1>2, DocumentsMade DEF OneMade
<1> HIDE DEF rs
<1>4. New(2) = Fresh("documents") /\ 2 \in 1 .. 10
  BY NewTables
<1> QED
  BY <1>3, <1>4, OneTableWalks

LEMMA Walk3 == Walks(3, Upgrade_0003, Downgrade_0003)
<1>1. Len(Upgrade_0003) = 2 /\ Len(Downgrade_0003) = 2
  BY DEF Upgrade_0003, Downgrade_0003
<1> DEFINE s == SchemaAt(3 - 1)
           T == TablesAt(3 - 1)
           rs == {"documents"}
<1>2. Tables(s, T) /\ "document_chunks" \notin T /\ rs \subseteq T
  BY TablesThere, TablesAtRevision
<1>3. OneMade(s, T, "document_chunks", rs, Upgrade_0003, Downgrade_0003)
  BY <1>1, <1>2, ChunksMade DEF OneMade
<1> HIDE DEF rs
<1>4. New(3) = Fresh("document_chunks") /\ 3 \in 1 .. 10
  BY NewTables
<1> QED
  BY <1>3, <1>4, OneTableWalks

LEMMA Walk4 == Walks(4, Upgrade_0004, Downgrade_0004)
<1>1. Len(Upgrade_0004) = 2 /\ Len(Downgrade_0004) = 2
  BY DEF Upgrade_0004, Downgrade_0004
<1> DEFINE s == SchemaAt(4 - 1)
           T == TablesAt(4 - 1)
           rs == {"document_chunks"}
<1>2. Tables(s, T) /\ "chunk_embeddings" \notin T /\ rs \subseteq T
  BY TablesThere, TablesAtRevision
<1>3. OneMade(s, T, "chunk_embeddings", rs, Upgrade_0004, Downgrade_0004)
  BY <1>1, <1>2, SimpleTables DEF OneMade
<1> HIDE DEF rs
<1>4. New(4) = Fresh("chunk_embeddings") /\ 4 \in 1 .. 10
  BY NewTables
<1> QED
  BY <1>3, <1>4, OneTableWalks

LEMMA Walk9 == Walks(9, Upgrade_0009, Downgrade_0009)
<1>1. Len(Upgrade_0009) = 2 /\ Len(Downgrade_0009) = 2
  BY DEF Upgrade_0009, Downgrade_0009
<1> DEFINE s == SchemaAt(9 - 1)
           T == TablesAt(9 - 1)
           rs == {"knowledge_bases", "evaluation_datasets", "evaluation_runs"}
<1>2. Tables(s, T) /\ "evaluation_baselines" \notin T /\ rs \subseteq T
  BY TablesThere, TablesAtRevision
<1>3. OneMade(s, T, "evaluation_baselines", rs, Upgrade_0009, Downgrade_0009)
  BY <1>1, <1>2, SimpleTables DEF OneMade
<1> HIDE DEF rs
<1>4. New(9) = Fresh("evaluation_baselines") /\ 9 \in 1 .. 10
  BY NewTables
<1> QED
  BY <1>3, <1>4, OneTableWalks

\* Revisions that create two or three tables.
TwoMade(s, T, t, rs, v, qs, up, down) ==
  /\ Tables(s, T) /\ Len(up) = 4 /\ Len(down) = 4
  /\ t \notin T /\ rs \subseteq T /\ MadeBy(t, rs, up[1], up[2], down[3], down[4])
  /\ v \notin T \cup {t} /\ qs \subseteq T \cup {t}
  /\ MadeBy(v, qs, up[3], up[4], down[1], down[2])

LEMMA TwoMadeTurns ==
  ASSUME NEW s, NEW T, NEW t, NEW rs, NEW v, NEW qs, NEW up, NEW down,
         TwoMade(s, T, t, rs, v, qs, up, down)
  PROVE  /\ \E S : Paired(S, 4, up, down) /\ S[1] = s /\ S[5] = s \cup Fresh(t) \cup Fresh(v)
         /\ Tables(s \cup Fresh(t) \cup Fresh(v), T \cup {t} \cup {v})
<1> DEFINE up1 == <<up[1], up[2]>>
           up2 == <<up[3], up[4]>>
           down1 == <<down[3], down[4]>>
           down2 == <<down[1], down[2]>>
           u == s \cup Fresh(t)
           U == T \cup {t}
<1>1. /\ Len(up1) = 2 /\ up1[1] = up[1] /\ up1[2] = up[2]
      /\ Len(up2) = 2 /\ up2[1] = up[3] /\ up2[2] = up[4]
      /\ Len(down1) = 2 /\ down1[1] = down[3] /\ down1[2] = down[4]
      /\ Len(down2) = 2 /\ down2[1] = down[1] /\ down2[2] = down[2]
  OBVIOUS
<1> HIDE DEF up1, up2, down1, down2
<1>2. /\ \E S : Paired(S, 2, up1, down1) /\ S[1] = s /\ S[3] = u
      /\ Tables(u, U)
  <2>1. OneMade(s, T, t, rs, up1, down1)
    BY <1>1 DEF OneMade, TwoMade
  <2> QED
    BY <2>1, MadeTurns
<1>3. /\ \E R : Paired(R, 2, up2, down2) /\ R[1] = u /\ R[3] = u \cup Fresh(v)
      /\ Tables(u \cup Fresh(v), U \cup {v})
  <2>1. OneMade(u, U, v, qs, up2, down2)
    BY <1>1, <1>2 DEF OneMade, TwoMade
  <2> HIDE DEF u, U
  <2> QED
    BY <2>1, MadeTurns
<1> HIDE DEF u, U
<1>4. PICK S : Paired(S, 2, up1, down1) /\ S[1] = s /\ S[3] = u
  BY <1>2
<1>5. PICK R : Paired(R, 2, up2, down2) /\ R[1] = u /\ R[3] = u \cup Fresh(v)
  BY <1>3
<1>6. /\ \A n \in 1 .. 2 : up[n] = up1[n] /\ down[2 + n] = down1[n]
      /\ \A n \in 1 .. 2 : up[2 + n] = up2[n] /\ down[n] = down2[n]
      /\ Len(up) = 2 + 2 /\ Len(down) = 2 + 2 /\ 2 + 1 = 3 /\ 2 + 2 + 1 = 5 /\ 2 + 2 = 4
  BY <1>1 DEF TwoMade
<1>7. \E Q : Paired(Q, 2 + 2, up, down) /\ Q[1] = S[1] /\ Q[2 + 2 + 1] = R[2 + 1]
  <2>1. Joined(S, 2, up1, down1, R, 2, up2, down2, up, down)
    BY <1>4, <1>5, <1>6 DEF Joined
  <2> QED
    BY <2>1, PairedOn
<1>8. \E Q : Paired(Q, 4, up, down) /\ Q[1] = s /\ Q[5] = u \cup Fresh(v)
  BY <1>4, <1>5, <1>6, <1>7
<1> QED
  BY <1>3, <1>8 DEF u, U

LEMMA Walk6 == Walks(6, Upgrade_0006, Downgrade_0006)
<1> DEFINE s == SchemaAt(6 - 1)
           T == TablesAt(6 - 1)
<1>1. Len(Upgrade_0006) = 4 /\ Len(Downgrade_0006) = 4
  BY DEF Upgrade_0006, Downgrade_0006
<1>2. /\ Tables(s, T) /\ "retrieval_traces" \notin T /\ {"knowledge_bases"} \subseteq T
      /\ "retrieval_trace_results" \notin T \cup {"retrieval_traces"}
      /\ {"retrieval_traces"} \subseteq T \cup {"retrieval_traces"}
  BY TablesThere, TablesAtRevision
<1> HIDE DEF s, T
<1>3. /\ \E S : /\ Paired(S, 4, Upgrade_0006, Downgrade_0006) /\ S[1] = s
                /\ S[5] = s \cup Fresh("retrieval_traces") \cup Fresh("retrieval_trace_results")
      /\ Tables(s \cup Fresh("retrieval_traces") \cup Fresh("retrieval_trace_results"),
                T \cup {"retrieval_traces"} \cup {"retrieval_trace_results"})
  <2>1. TwoMade(s, T, "retrieval_traces", {"knowledge_bases"}, "retrieval_trace_results",
                {"retrieval_traces"}, Upgrade_0006, Downgrade_0006)
    BY <1>1, <1>2, TracesMade, TraceResultsMade DEF TwoMade
  <2> QED
    BY <2>1, TwoMadeTurns
<1>4. s \cup Fresh("retrieval_traces") \cup Fresh("retrieval_trace_results") = s \cup New(6)
  BY NewTables
<1>5. 6 \in 1 .. 16 /\ 6 # 11 /\ 4 + 1 = 5
  OBVIOUS
<1> QED
  BY <1>3, <1>4, <1>5, PairedWalks DEF s

LEMMA Walk8 == Walks(8, Upgrade_0008, Downgrade_0008)
<1> DEFINE s == SchemaAt(8 - 1)
           T == TablesAt(8 - 1)
<1>1. Len(Upgrade_0008) = 4 /\ Len(Downgrade_0008) = 4
  BY DEF Upgrade_0008, Downgrade_0008
<1>2. /\ Tables(s, T) /\ "evaluation_runs" \notin T /\ {"knowledge_bases"} \subseteq T
      /\ "evaluation_run_cases" \notin T \cup {"evaluation_runs"}
      /\ {"evaluation_runs"} \subseteq T \cup {"evaluation_runs"}
  BY TablesThere, TablesAtRevision
<1> HIDE DEF s, T
<1>3. /\ \E S : /\ Paired(S, 4, Upgrade_0008, Downgrade_0008) /\ S[1] = s
                /\ S[5] = s \cup Fresh("evaluation_runs") \cup Fresh("evaluation_run_cases")
      /\ Tables(s \cup Fresh("evaluation_runs") \cup Fresh("evaluation_run_cases"),
                T \cup {"evaluation_runs"} \cup {"evaluation_run_cases"})
  <2>1. TwoMade(s, T, "evaluation_runs", {"knowledge_bases"}, "evaluation_run_cases",
                {"evaluation_runs"}, Upgrade_0008, Downgrade_0008)
    BY <1>1, <1>2, SimpleTables DEF TwoMade
  <2> QED
    BY <2>1, TwoMadeTurns
<1>4. s \cup Fresh("evaluation_runs") \cup Fresh("evaluation_run_cases") = s \cup New(8)
  BY NewTables
<1>5. 8 \in 1 .. 16 /\ 8 # 11 /\ 4 + 1 = 5
  OBVIOUS
<1> QED
  BY <1>3, <1>4, <1>5, PairedWalks DEF s

LEMMA Walk7 == Walks(7, Upgrade_0007, Downgrade_0007)
<1> DEFINE s == SchemaAt(7 - 1)
           T == TablesAt(7 - 1)
           a == "evaluation_datasets"
           b == "evaluation_cases"
           c == "evaluation_judgments"
           u == s \cup Fresh(a) \cup Fresh(b)
           U == T \cup {a} \cup {b}
           up == Upgrade_0007
           down == Downgrade_0007
           up1 == <<up[1], up[2], up[3], up[4]>>
           up2 == <<up[5], up[6]>>
           down1 == <<down[3], down[4], down[5], down[6]>>
           down2 == <<down[1], down[2]>>
<1>1. Len(up) = 6 /\ Len(down) = 6
  BY DEF Upgrade_0007, Downgrade_0007
<1>2. /\ Tables(s, T) /\ a \notin T /\ {"knowledge_bases"} \subseteq T
      /\ b \notin T \cup {a} /\ {a} \subseteq T \cup {a} /\ c \notin U /\ {b} \subseteq U
  BY TablesThere, TablesAtRevision
<1>3. /\ Len(up1) = 4 /\ up1[1] = up[1] /\ up1[2] = up[2] /\ up1[3] = up[3] /\ up1[4] = up[4]
      /\ Len(down1) = 4 /\ down1[1] = down[3] /\ down1[2] = down[4] /\ down1[3] = down[5]
      /\ down1[4] = down[6]
      /\ Len(up2) = 2 /\ up2[1] = up[5] /\ up2[2] = up[6]
      /\ Len(down2) = 2 /\ down2[1] = down[1] /\ down2[2] = down[2]
  OBVIOUS
<1>4. /\ MadeBy(a, {"knowledge_bases"}, up[1], up[2], down[5], down[6])
      /\ MadeBy(b, {a}, up[3], up[4], down[3], down[4])
      /\ MadeBy(c, {b}, up[5], up[6], down[1], down[2])
  BY SimpleTables
<1> HIDE DEF s, T, a, b, c, up, down, up1, up2, down1, down2
<1>5. /\ \E S : Paired(S, 4, up1, down1) /\ S[1] = s /\ S[5] = u
      /\ Tables(u, U)
  <2>1. TwoMade(s, T, a, {"knowledge_bases"}, b, {a}, up1, down1)
    BY <1>2, <1>3, <1>4 DEF TwoMade
  <2> QED
    BY <2>1, TwoMadeTurns
<1>6. /\ \E R : Paired(R, 2, up2, down2) /\ R[1] = u /\ R[3] = u \cup Fresh(c)
      /\ Tables(u \cup Fresh(c), U \cup {c})
  <2>1. OneMade(u, U, c, {b}, up2, down2)
    BY <1>2, <1>3, <1>4, <1>5 DEF OneMade
  <2> HIDE DEF u, U
  <2> QED
    BY <2>1, MadeTurns
<1> HIDE DEF u, U
<1>7. PICK S : Paired(S, 4, up1, down1) /\ S[1] = s /\ S[5] = u
  BY <1>5
<1>8. PICK R : Paired(R, 2, up2, down2) /\ R[1] = u /\ R[3] = u \cup Fresh(c)
  BY <1>6
<1>9. /\ \A n \in 1 .. 4 : up[n] = up1[n] /\ down[2 + n] = down1[n]
      /\ \A n \in 1 .. 2 : up[4 + n] = up2[n] /\ down[n] = down2[n]
      /\ Len(up) = 4 + 2 /\ Len(down) = 4 + 2 /\ 4 + 1 = 5 /\ 2 + 1 = 3
      /\ 4 + 2 + 1 = 7 /\ 4 + 2 = 6
  BY <1>1, <1>3
<1>10. \E Q : Paired(Q, 4 + 2, up, down) /\ Q[1] = S[1] /\ Q[4 + 2 + 1] = R[2 + 1]
  <2>1. Joined(S, 4, up1, down1, R, 2, up2, down2, up, down)
    BY <1>7, <1>8, <1>9 DEF Joined
  <2> QED
    BY <2>1, PairedOn
<1>11. u \cup Fresh(c) = s \cup New(7)
  BY NewTables DEF u, a, b, c
<1>12. \E Q : Paired(Q, 6, up, down) /\ Q[1] = s /\ Q[6 + 1] = s \cup New(7)
  BY <1>7, <1>8, <1>9, <1>10, <1>11
<1>13. 7 \in 1 .. 16 /\ 7 # 11
  OBVIOUS
<1> QED
  BY <1>12, <1>13, PairedWalks DEF s, up, down

\* A revision that adds objects to tables that exist.
ObjectsMade(r, L, w, up, down) ==
  /\ L \in Nat /\ Len(up) = L /\ Len(down) = L
  /\ \A m, n \in 1 .. L : w[m] = w[n] => m = n
  /\ \A n \in 1 .. L :
       /\ w[n] \in New(r) /\ w[n][1] \in TablesAt(r - 1)
       /\ up[n] = Adds(w[n][1], {w[n]}, {}) /\ down[L + 1 - n] = Drops(w[n][1], {w[n]})
  /\ \A o \in New(r) : \E n \in 1 .. L : o = w[n]

LEMMA ObjectsWalk ==
  ASSUME NEW r \in 1 .. 16, r # 11, NEW L, NEW w, NEW up, NEW down,
         ObjectsMade(r, L, w, up, down)
  PROVE  Walks(r, up, down)
<1> DEFINE s == SchemaAt(r - 1)
<1>1. /\ L \in Nat /\ Len(up) = L /\ Len(down) = L
      /\ \A m, n \in 1 .. L : w[m] = w[n] => m = n
      /\ \A n \in 1 .. L :
           /\ w[n] \in New(r) /\ w[n][1] \in TablesAt(r - 1)
           /\ up[n] = Adds(w[n][1], {w[n]}, {}) /\ down[L + 1 - n] = Drops(w[n][1], {w[n]})
      /\ \A o \in New(r) : \E n \in 1 .. L : o = w[n]
  BY DEF ObjectsMade
<1>2. New(r) \cap s = {}
  BY SchemaGrows
<1>3. \A t \in TablesAt(r - 1) : <<t, "table", t>> \in s
  <2>1. r - 1 \in 0 .. 16
    OBVIOUS
  <2>2. Tables(s, TablesAt(r - 1))
    BY <2>1, TablesAtRevision
  <2> QED
    BY <2>2 DEF Tables
<1> HIDE DEF s
<1>4. \A n \in 1 .. L :
        /\ w[n] \notin s /\ <<w[n][1], "table", w[n][1]>> \in s
        /\ up[n] = Adds(w[n][1], {w[n]}, {}) /\ down[L + 1 - n] = Drops(w[n][1], {w[n]})
  BY <1>1, <1>2, <1>3
<1>5. \E S : Paired(S, L, up, down) /\ S[1] = s /\ S[L + 1] = s \cup {w[n] : n \in 1 .. L}
  <2>1. ObjectsAdded(s, L, w, up, down)
    BY <1>1, <1>4 DEF ObjectsAdded
  <2> QED
    BY <2>1, ObjectsPaired
<1>6. {w[n] : n \in 1 .. L} = New(r)
  <2>1. \A n \in 1 .. L : w[n] \in New(r)
    BY <1>1
  <2>2. \A o \in New(r) : \E n \in 1 .. L : o = w[n]
    BY <1>1
  <2> QED
    BY <2>1, <2>2
<1> QED
  BY <1>5, <1>6, PairedWalks DEF s

LEMMA Walk5 == Walks(5, Upgrade_0005, Downgrade_0005)
<1> DEFINE w1 == <<"document_chunks", "column", "search_vector">>
           w2 == <<"document_chunks", "index", "ix_document_chunks_search_vector">>
           w == <<w1, w2>>
<1>1. Len(Upgrade_0005) = 2 /\ Len(Downgrade_0005) = 2
  BY DEF Upgrade_0005, Downgrade_0005
<1>2. /\ Upgrade_0005[1] = Adds("document_chunks", {w1}, {})
      /\ Downgrade_0005[2] = Drops("document_chunks", {w1})
      /\ Upgrade_0005[2] = Adds("document_chunks", {w2}, {})
      /\ Downgrade_0005[1] = Drops("document_chunks", {w2})
  BY DEF Upgrade_0005, Downgrade_0005, AddColumn, DropColumn, CreateIndex, DropIndex
<1>3. w1[1] = "document_chunks" /\ w2[1] = "document_chunks"
  OBVIOUS
<1>4. New(5) = {w1, w2}
  BY NewObjects DEF SearchObjects
<1>5. w1 # w2
  OBVIOUS
<1>6. "document_chunks" \in TablesAt(5 - 1)
  BY TablesThere
<1> HIDE DEF w1, w2
<1>7. /\ w[1] = w1
      /\ w[2] = w2
  OBVIOUS
<1> HIDE DEF w
<1>8. \A n \in 1 .. 2 : n = 1 \/ n = 2
  OBVIOUS
<1>9. \A m, n \in 1 .. 2 : w[m] = w[n] => m = n
  BY <1>7, <1>8, <1>5
<1>10. \A n \in 1 .. 2 :
         /\ w[n] \in New(5) /\ w[n][1] \in TablesAt(5 - 1)
         /\ Upgrade_0005[n] = Adds(w[n][1], {w[n]}, {})
         /\ Downgrade_0005[2 + 1 - n] = Drops(w[n][1], {w[n]})
  <2>1. /\ w[1] \in New(5) /\ w[1][1] \in TablesAt(5 - 1)
        /\ Upgrade_0005[1] = Adds(w[1][1], {w[1]}, {})
        /\ Downgrade_0005[2 + 1 - 1] = Drops(w[1][1], {w[1]})
    BY <1>2, <1>3, <1>4, <1>6, <1>7
  <2>2. /\ w[2] \in New(5) /\ w[2][1] \in TablesAt(5 - 1)
        /\ Upgrade_0005[2] = Adds(w[2][1], {w[2]}, {})
        /\ Downgrade_0005[2 + 1 - 2] = Drops(w[2][1], {w[2]})
    BY <1>2, <1>3, <1>4, <1>6, <1>7
  <2> QED
    BY <1>8, <2>1, <2>2
<1>11. \A o \in New(5) : \E n \in 1 .. 2 : o = w[n]
  BY <1>4, <1>7
<1>12. ObjectsMade(5, 2, w, Upgrade_0005, Downgrade_0005)
  BY <1>1, <1>9, <1>10, <1>11 DEF ObjectsMade
<1>13. 5 \in 1 .. 16 /\ 5 # 11
  OBVIOUS
<1> QED
  BY <1>12, <1>13, ObjectsWalk

LEMMA Walk12 == Walks(12, Upgrade_0012, Downgrade_0012)
<1> DEFINE w1 == <<"document_chunk_versions", "column", "status">>
           w2 == <<"document_chunk_versions", "column", "attempt_id">>
           w3 == <<"document_chunk_versions", "column", "lease_expires_at">>
           w4 == <<"document_chunk_versions", "column", "attempt_count">>
           w5 == <<"document_chunk_versions", "constraint", "ck_chunk_versions_status">>
           w6 == <<"document_chunk_versions", "constraint", "ck_chunk_versions_attempt_count">>
           w7 == <<"document_chunk_versions", "constraint", "ck_chunk_versions_attempt_lease">>
           w8 == <<"document_chunk_versions", "index", "uq_chunk_versions_processing_document">>
           w == <<w1, w2, w3, w4, w5, w6, w7, w8>>
<1>1. Len(Upgrade_0012) = 8 /\ Len(Downgrade_0012) = 8
  BY DEF Upgrade_0012, Downgrade_0012
<1>2. /\ Upgrade_0012[1] = Adds("document_chunk_versions", {w1}, {})
      /\ Downgrade_0012[8] = Drops("document_chunk_versions", {w1})
      /\ Upgrade_0012[2] = Adds("document_chunk_versions", {w2}, {})
      /\ Downgrade_0012[7] = Drops("document_chunk_versions", {w2})
      /\ Upgrade_0012[3] = Adds("document_chunk_versions", {w3}, {})
      /\ Downgrade_0012[6] = Drops("document_chunk_versions", {w3})
      /\ Upgrade_0012[4] = Adds("document_chunk_versions", {w4}, {})
      /\ Downgrade_0012[5] = Drops("document_chunk_versions", {w4})
      /\ Upgrade_0012[5] = Adds("document_chunk_versions", {w5}, {})
      /\ Downgrade_0012[4] = Drops("document_chunk_versions", {w5})
      /\ Upgrade_0012[6] = Adds("document_chunk_versions", {w6}, {})
      /\ Downgrade_0012[3] = Drops("document_chunk_versions", {w6})
      /\ Upgrade_0012[7] = Adds("document_chunk_versions", {w7}, {})
      /\ Downgrade_0012[2] = Drops("document_chunk_versions", {w7})
      /\ Upgrade_0012[8] = Adds("document_chunk_versions", {w8}, {})
      /\ Downgrade_0012[1] = Drops("document_chunk_versions", {w8})
  BY DEF Upgrade_0012, Downgrade_0012, AddColumn, DropColumn, AddConstraint, DropConstraint,
     CreateIndex, DropIndex
<1>3. /\ w1[1] = "document_chunk_versions"
      /\ w2[1] = "document_chunk_versions"
      /\ w3[1] = "document_chunk_versions"
      /\ w4[1] = "document_chunk_versions"
      /\ w5[1] = "document_chunk_versions"
      /\ w6[1] = "document_chunk_versions"
      /\ w7[1] = "document_chunk_versions"
      /\ w8[1] = "document_chunk_versions"
  OBVIOUS
<1>4. New(12) = {w1, w2, w3, w4, w5, w6, w7, w8}
  BY NewObjects DEF StatusObjects
<1>5. /\ w1 \notin {w2, w3, w4, w5, w6, w7, w8}
      /\ w2 \notin {w3, w4, w5, w6, w7, w8}
      /\ w3 \notin {w4, w5, w6, w7, w8}
      /\ w4 \notin {w5, w6, w7, w8}
      /\ w5 \notin {w6, w7, w8}
      /\ w6 \notin {w7, w8}
      /\ w7 \notin {w8}
  OBVIOUS
<1>6. "document_chunk_versions" \in TablesAt(12 - 1)
  BY TablesThere
<1> HIDE DEF w1, w2, w3, w4, w5, w6, w7, w8
<1>7. /\ w[1] = w1
      /\ w[2] = w2
      /\ w[3] = w3
      /\ w[4] = w4
      /\ w[5] = w5
      /\ w[6] = w6
      /\ w[7] = w7
      /\ w[8] = w8
  OBVIOUS
<1> HIDE DEF w
<1>8. \A n \in 1 .. 8 : n = 1 \/ n = 2 \/ n = 3 \/ n = 4 \/ n = 5 \/ n = 6 \/ n = 7 \/ n = 8
  OBVIOUS
<1>9. \A m, n \in 1 .. 8 : w[m] = w[n] => m = n
  BY <1>7, <1>8, <1>5
<1>10. \A n \in 1 .. 8 :
         /\ w[n] \in New(12) /\ w[n][1] \in TablesAt(12 - 1)
         /\ Upgrade_0012[n] = Adds(w[n][1], {w[n]}, {})
         /\ Downgrade_0012[8 + 1 - n] = Drops(w[n][1], {w[n]})
  <2>1. /\ w[1] \in New(12) /\ w[1][1] \in TablesAt(12 - 1)
        /\ Upgrade_0012[1] = Adds(w[1][1], {w[1]}, {})
        /\ Downgrade_0012[8 + 1 - 1] = Drops(w[1][1], {w[1]})
    BY <1>2, <1>3, <1>4, <1>6, <1>7
  <2>2. /\ w[2] \in New(12) /\ w[2][1] \in TablesAt(12 - 1)
        /\ Upgrade_0012[2] = Adds(w[2][1], {w[2]}, {})
        /\ Downgrade_0012[8 + 1 - 2] = Drops(w[2][1], {w[2]})
    BY <1>2, <1>3, <1>4, <1>6, <1>7
  <2>3. /\ w[3] \in New(12) /\ w[3][1] \in TablesAt(12 - 1)
        /\ Upgrade_0012[3] = Adds(w[3][1], {w[3]}, {})
        /\ Downgrade_0012[8 + 1 - 3] = Drops(w[3][1], {w[3]})
    BY <1>2, <1>3, <1>4, <1>6, <1>7
  <2>4. /\ w[4] \in New(12) /\ w[4][1] \in TablesAt(12 - 1)
        /\ Upgrade_0012[4] = Adds(w[4][1], {w[4]}, {})
        /\ Downgrade_0012[8 + 1 - 4] = Drops(w[4][1], {w[4]})
    BY <1>2, <1>3, <1>4, <1>6, <1>7
  <2>5. /\ w[5] \in New(12) /\ w[5][1] \in TablesAt(12 - 1)
        /\ Upgrade_0012[5] = Adds(w[5][1], {w[5]}, {})
        /\ Downgrade_0012[8 + 1 - 5] = Drops(w[5][1], {w[5]})
    BY <1>2, <1>3, <1>4, <1>6, <1>7
  <2>6. /\ w[6] \in New(12) /\ w[6][1] \in TablesAt(12 - 1)
        /\ Upgrade_0012[6] = Adds(w[6][1], {w[6]}, {})
        /\ Downgrade_0012[8 + 1 - 6] = Drops(w[6][1], {w[6]})
    BY <1>2, <1>3, <1>4, <1>6, <1>7
  <2>7. /\ w[7] \in New(12) /\ w[7][1] \in TablesAt(12 - 1)
        /\ Upgrade_0012[7] = Adds(w[7][1], {w[7]}, {})
        /\ Downgrade_0012[8 + 1 - 7] = Drops(w[7][1], {w[7]})
    BY <1>2, <1>3, <1>4, <1>6, <1>7
  <2>8. /\ w[8] \in New(12) /\ w[8][1] \in TablesAt(12 - 1)
        /\ Upgrade_0012[8] = Adds(w[8][1], {w[8]}, {})
        /\ Downgrade_0012[8 + 1 - 8] = Drops(w[8][1], {w[8]})
    BY <1>2, <1>3, <1>4, <1>6, <1>7
  <2> QED
    BY <1>8, <2>1, <2>2, <2>3, <2>4, <2>5, <2>6, <2>7, <2>8
<1>11. \A o \in New(12) : \E n \in 1 .. 8 : o = w[n]
  BY <1>4, <1>7
<1>12. ObjectsMade(12, 8, w, Upgrade_0012, Downgrade_0012)
  BY <1>1, <1>9, <1>10, <1>11 DEF ObjectsMade
<1>13. 12 \in 1 .. 16 /\ 12 # 11
  OBVIOUS
<1> QED
  BY <1>12, <1>13, ObjectsWalk

LEMMA Walk13 == Walks(13, Upgrade_0013, Downgrade_0013)
<1> DEFINE w1 == <<"document_chunks", "column", "page_start">>
           w2 == <<"document_chunks", "column", "page_end">>
           w3 == <<"document_chunks", "column", "ocr_used">>
           w4 == <<"document_chunks", "constraint", "ck_document_chunks_pdf_page_range">>
           w5 == <<"document_chunks", "constraint", "ck_document_chunks_ocr_has_page">>
           w == <<w1, w2, w3, w4, w5>>
<1>1. Len(Upgrade_0013) = 5 /\ Len(Downgrade_0013) = 5
  BY DEF Upgrade_0013, Downgrade_0013
<1>2. /\ Upgrade_0013[1] = Adds("document_chunks", {w1}, {})
      /\ Downgrade_0013[5] = Drops("document_chunks", {w1})
      /\ Upgrade_0013[2] = Adds("document_chunks", {w2}, {})
      /\ Downgrade_0013[4] = Drops("document_chunks", {w2})
      /\ Upgrade_0013[3] = Adds("document_chunks", {w3}, {})
      /\ Downgrade_0013[3] = Drops("document_chunks", {w3})
      /\ Upgrade_0013[4] = Adds("document_chunks", {w4}, {})
      /\ Downgrade_0013[2] = Drops("document_chunks", {w4})
      /\ Upgrade_0013[5] = Adds("document_chunks", {w5}, {})
      /\ Downgrade_0013[1] = Drops("document_chunks", {w5})
  BY DEF Upgrade_0013, Downgrade_0013, AddColumn, DropColumn, AddConstraint, DropConstraint
<1>3. /\ w1[1] = "document_chunks"
      /\ w2[1] = "document_chunks"
      /\ w3[1] = "document_chunks"
      /\ w4[1] = "document_chunks"
      /\ w5[1] = "document_chunks"
  OBVIOUS
<1>4. New(13) = {w1, w2, w3, w4, w5}
  BY NewObjects DEF PageObjects
<1>5. /\ w1 \notin {w2, w3, w4, w5}
      /\ w2 \notin {w3, w4, w5}
      /\ w3 \notin {w4, w5}
      /\ w4 \notin {w5}
  OBVIOUS
<1>6. "document_chunks" \in TablesAt(13 - 1)
  BY TablesThere
<1> HIDE DEF w1, w2, w3, w4, w5
<1>7. /\ w[1] = w1
      /\ w[2] = w2
      /\ w[3] = w3
      /\ w[4] = w4
      /\ w[5] = w5
  OBVIOUS
<1> HIDE DEF w
<1>8. \A n \in 1 .. 5 : n = 1 \/ n = 2 \/ n = 3 \/ n = 4 \/ n = 5
  OBVIOUS
<1>9. \A m, n \in 1 .. 5 : w[m] = w[n] => m = n
  BY <1>7, <1>8, <1>5
<1>10. \A n \in 1 .. 5 :
         /\ w[n] \in New(13) /\ w[n][1] \in TablesAt(13 - 1)
         /\ Upgrade_0013[n] = Adds(w[n][1], {w[n]}, {})
         /\ Downgrade_0013[5 + 1 - n] = Drops(w[n][1], {w[n]})
  <2>1. /\ w[1] \in New(13) /\ w[1][1] \in TablesAt(13 - 1)
        /\ Upgrade_0013[1] = Adds(w[1][1], {w[1]}, {})
        /\ Downgrade_0013[5 + 1 - 1] = Drops(w[1][1], {w[1]})
    BY <1>2, <1>3, <1>4, <1>6, <1>7
  <2>2. /\ w[2] \in New(13) /\ w[2][1] \in TablesAt(13 - 1)
        /\ Upgrade_0013[2] = Adds(w[2][1], {w[2]}, {})
        /\ Downgrade_0013[5 + 1 - 2] = Drops(w[2][1], {w[2]})
    BY <1>2, <1>3, <1>4, <1>6, <1>7
  <2>3. /\ w[3] \in New(13) /\ w[3][1] \in TablesAt(13 - 1)
        /\ Upgrade_0013[3] = Adds(w[3][1], {w[3]}, {})
        /\ Downgrade_0013[5 + 1 - 3] = Drops(w[3][1], {w[3]})
    BY <1>2, <1>3, <1>4, <1>6, <1>7
  <2>4. /\ w[4] \in New(13) /\ w[4][1] \in TablesAt(13 - 1)
        /\ Upgrade_0013[4] = Adds(w[4][1], {w[4]}, {})
        /\ Downgrade_0013[5 + 1 - 4] = Drops(w[4][1], {w[4]})
    BY <1>2, <1>3, <1>4, <1>6, <1>7
  <2>5. /\ w[5] \in New(13) /\ w[5][1] \in TablesAt(13 - 1)
        /\ Upgrade_0013[5] = Adds(w[5][1], {w[5]}, {})
        /\ Downgrade_0013[5 + 1 - 5] = Drops(w[5][1], {w[5]})
    BY <1>2, <1>3, <1>4, <1>6, <1>7
  <2> QED
    BY <1>8, <2>1, <2>2, <2>3, <2>4, <2>5
<1>11. \A o \in New(13) : \E n \in 1 .. 5 : o = w[n]
  BY <1>4, <1>7
<1>12. ObjectsMade(13, 5, w, Upgrade_0013, Downgrade_0013)
  BY <1>1, <1>9, <1>10, <1>11 DEF ObjectsMade
<1>13. 13 \in 1 .. 16 /\ 13 # 11
  OBVIOUS
<1> QED
  BY <1>12, <1>13, ObjectsWalk

LEMMA Walk14 == Walks(14, Upgrade_0014, Downgrade_0014)
<1> DEFINE w1 == <<"retrieval_traces", "column", "metadata_filters">>
           w == <<w1>>
<1>1. Len(Upgrade_0014) = 1 /\ Len(Downgrade_0014) = 1
  BY DEF Upgrade_0014, Downgrade_0014
<1>2. /\ Upgrade_0014[1] = Adds("retrieval_traces", {w1}, {})
      /\ Downgrade_0014[1] = Drops("retrieval_traces", {w1})
  BY DEF Upgrade_0014, Downgrade_0014, AddColumn, DropColumn
<1>3. w1[1] = "retrieval_traces"
  OBVIOUS
<1>4. New(14) = {w1}
  BY NewObjects DEF FilterObjects
<1>6. "retrieval_traces" \in TablesAt(14 - 1)
  BY TablesThere
<1> HIDE DEF w1
<1>7. w[1] = w1
  OBVIOUS
<1> HIDE DEF w
<1>8. \A n \in 1 .. 1 : n = 1
  OBVIOUS
<1>9. \A m, n \in 1 .. 1 : w[m] = w[n] => m = n
  BY <1>7, <1>8
<1>10. \A n \in 1 .. 1 :
         /\ w[n] \in New(14) /\ w[n][1] \in TablesAt(14 - 1)
         /\ Upgrade_0014[n] = Adds(w[n][1], {w[n]}, {})
         /\ Downgrade_0014[1 + 1 - n] = Drops(w[n][1], {w[n]})
  <2>1. /\ w[1] \in New(14) /\ w[1][1] \in TablesAt(14 - 1)
        /\ Upgrade_0014[1] = Adds(w[1][1], {w[1]}, {})
        /\ Downgrade_0014[1 + 1 - 1] = Drops(w[1][1], {w[1]})
    BY <1>2, <1>3, <1>4, <1>6, <1>7
  <2> QED
    BY <1>8, <2>1
<1>11. \A o \in New(14) : \E n \in 1 .. 1 : o = w[n]
  BY <1>4, <1>7
<1>12. ObjectsMade(14, 1, w, Upgrade_0014, Downgrade_0014)
  BY <1>1, <1>9, <1>10, <1>11 DEF ObjectsMade
<1>13. 14 \in 1 .. 16 /\ 14 # 11
  OBVIOUS
<1> QED
  BY <1>12, <1>13, ObjectsWalk

LEMMA Walk15 == Walks(15, Upgrade_0015, Downgrade_0015)
<1> DEFINE w1 == <<"retrieval_traces", "column", "reranker_model">>
           w2 == <<"retrieval_trace_results", "column", "candidate_rank">>
           w3 == <<"retrieval_trace_results", "column", "rerank_rank">>
           w4 == <<"retrieval_trace_results", "column", "rerank_score">>
           w5 == <<"retrieval_trace_results", "constraint", "ck_retrieval_trace_results_rerank">>
           w == <<w1, w2, w3, w4, w5>>
<1>1. Len(Upgrade_0015) = 5 /\ Len(Downgrade_0015) = 5
  BY DEF Upgrade_0015, Downgrade_0015
<1>2. /\ Upgrade_0015[1] = Adds("retrieval_traces", {w1}, {})
      /\ Downgrade_0015[5] = Drops("retrieval_traces", {w1})
      /\ Upgrade_0015[2] = Adds("retrieval_trace_results", {w2}, {})
      /\ Downgrade_0015[4] = Drops("retrieval_trace_results", {w2})
      /\ Upgrade_0015[3] = Adds("retrieval_trace_results", {w3}, {})
      /\ Downgrade_0015[3] = Drops("retrieval_trace_results", {w3})
      /\ Upgrade_0015[4] = Adds("retrieval_trace_results", {w4}, {})
      /\ Downgrade_0015[2] = Drops("retrieval_trace_results", {w4})
      /\ Upgrade_0015[5] = Adds("retrieval_trace_results", {w5}, {})
      /\ Downgrade_0015[1] = Drops("retrieval_trace_results", {w5})
  BY DEF Upgrade_0015, Downgrade_0015, AddColumn, DropColumn, AddConstraint, DropConstraint
<1>3. /\ w1[1] = "retrieval_traces"
      /\ w2[1] = "retrieval_trace_results"
      /\ w3[1] = "retrieval_trace_results"
      /\ w4[1] = "retrieval_trace_results"
      /\ w5[1] = "retrieval_trace_results"
  OBVIOUS
<1>4. New(15) = {w1, w2, w3, w4, w5}
  BY NewObjects DEF RerankObjects
<1>5. /\ w1 \notin {w2, w3, w4, w5}
      /\ w2 \notin {w3, w4, w5}
      /\ w3 \notin {w4, w5}
      /\ w4 \notin {w5}
  OBVIOUS
<1>6. "retrieval_trace_results" \in TablesAt(15 - 1) /\ "retrieval_traces" \in TablesAt(15 - 1)
  BY TablesThere
<1> HIDE DEF w1, w2, w3, w4, w5
<1>7. /\ w[1] = w1
      /\ w[2] = w2
      /\ w[3] = w3
      /\ w[4] = w4
      /\ w[5] = w5
  OBVIOUS
<1> HIDE DEF w
<1>8. \A n \in 1 .. 5 : n = 1 \/ n = 2 \/ n = 3 \/ n = 4 \/ n = 5
  OBVIOUS
<1>9. \A m, n \in 1 .. 5 : w[m] = w[n] => m = n
  BY <1>7, <1>8, <1>5
<1>10. \A n \in 1 .. 5 :
         /\ w[n] \in New(15) /\ w[n][1] \in TablesAt(15 - 1)
         /\ Upgrade_0015[n] = Adds(w[n][1], {w[n]}, {})
         /\ Downgrade_0015[5 + 1 - n] = Drops(w[n][1], {w[n]})
  <2>1. /\ w[1] \in New(15) /\ w[1][1] \in TablesAt(15 - 1)
        /\ Upgrade_0015[1] = Adds(w[1][1], {w[1]}, {})
        /\ Downgrade_0015[5 + 1 - 1] = Drops(w[1][1], {w[1]})
    BY <1>2, <1>3, <1>4, <1>6, <1>7
  <2>2. /\ w[2] \in New(15) /\ w[2][1] \in TablesAt(15 - 1)
        /\ Upgrade_0015[2] = Adds(w[2][1], {w[2]}, {})
        /\ Downgrade_0015[5 + 1 - 2] = Drops(w[2][1], {w[2]})
    BY <1>2, <1>3, <1>4, <1>6, <1>7
  <2>3. /\ w[3] \in New(15) /\ w[3][1] \in TablesAt(15 - 1)
        /\ Upgrade_0015[3] = Adds(w[3][1], {w[3]}, {})
        /\ Downgrade_0015[5 + 1 - 3] = Drops(w[3][1], {w[3]})
    BY <1>2, <1>3, <1>4, <1>6, <1>7
  <2>4. /\ w[4] \in New(15) /\ w[4][1] \in TablesAt(15 - 1)
        /\ Upgrade_0015[4] = Adds(w[4][1], {w[4]}, {})
        /\ Downgrade_0015[5 + 1 - 4] = Drops(w[4][1], {w[4]})
    BY <1>2, <1>3, <1>4, <1>6, <1>7
  <2>5. /\ w[5] \in New(15) /\ w[5][1] \in TablesAt(15 - 1)
        /\ Upgrade_0015[5] = Adds(w[5][1], {w[5]}, {})
        /\ Downgrade_0015[5 + 1 - 5] = Drops(w[5][1], {w[5]})
    BY <1>2, <1>3, <1>4, <1>6, <1>7
  <2> QED
    BY <1>8, <2>1, <2>2, <2>3, <2>4, <2>5
<1>11. \A o \in New(15) : \E n \in 1 .. 5 : o = w[n]
  BY <1>4, <1>7
<1>12. ObjectsMade(15, 5, w, Upgrade_0015, Downgrade_0015)
  BY <1>1, <1>9, <1>10, <1>11 DEF ObjectsMade
<1>13. 15 \in 1 .. 16 /\ 15 # 11
  OBVIOUS
<1> QED
  BY <1>12, <1>13, ObjectsWalk

LEMMA Walk16 == Walks(16, Upgrade_0016, Downgrade_0016)
<1> DEFINE w1 == <<"retrieval_traces", "column", "stage_timings_ms">>
           w == <<w1>>
<1>1. Len(Upgrade_0016) = 1 /\ Len(Downgrade_0016) = 1
  BY DEF Upgrade_0016, Downgrade_0016
<1>2. /\ Upgrade_0016[1] = Adds("retrieval_traces", {w1}, {})
      /\ Downgrade_0016[1] = Drops("retrieval_traces", {w1})
  BY DEF Upgrade_0016, Downgrade_0016, AddColumn, DropColumn
<1>3. w1[1] = "retrieval_traces"
  OBVIOUS
<1>4. New(16) = {w1}
  BY NewObjects DEF TimingObjects
<1>6. "retrieval_traces" \in TablesAt(16 - 1)
  BY TablesThere
<1> HIDE DEF w1
<1>7. w[1] = w1
  OBVIOUS
<1> HIDE DEF w
<1>8. \A n \in 1 .. 1 : n = 1
  OBVIOUS
<1>9. \A m, n \in 1 .. 1 : w[m] = w[n] => m = n
  BY <1>7, <1>8
<1>10. \A n \in 1 .. 1 :
         /\ w[n] \in New(16) /\ w[n][1] \in TablesAt(16 - 1)
         /\ Upgrade_0016[n] = Adds(w[n][1], {w[n]}, {})
         /\ Downgrade_0016[1 + 1 - n] = Drops(w[n][1], {w[n]})
  <2>1. /\ w[1] \in New(16) /\ w[1][1] \in TablesAt(16 - 1)
        /\ Upgrade_0016[1] = Adds(w[1][1], {w[1]}, {})
        /\ Downgrade_0016[1 + 1 - 1] = Drops(w[1][1], {w[1]})
    BY <1>2, <1>3, <1>4, <1>6, <1>7
  <2> QED
    BY <1>8, <2>1
<1>11. \A o \in New(16) : \E n \in 1 .. 1 : o = w[n]
  BY <1>4, <1>7
<1>12. ObjectsMade(16, 1, w, Upgrade_0016, Downgrade_0016)
  BY <1>1, <1>9, <1>10, <1>11 DEF ObjectsMade
<1>13. 16 \in 1 .. 16 /\ 16 # 11
  OBVIOUS
<1> QED
  BY <1>12, <1>13, ObjectsWalk

\* The revision that also widens the column of Alembic's own table.
LEMMA Walk10 == Walks(10, Upgrade_0010, Downgrade_0010)
<1> DEFINE t == "evaluation_baseline_promotions"
           rs == {"knowledge_bases", "evaluation_datasets"}
           i == "ix_evaluation_baseline_promotions_kb_dataset_promoted_id"
           j == "ix_evaluation_baseline_promotions_dataset_config_promoted_id"
           s == SchemaAt(9)
           T == TablesAt(9)
<1>1. PICK cs, ks :
        /\ EvaluationBaselinePromotionRecord = Table(t, cs, ks, {i, j}, rs)
        /\ Upgrade_0010[2] = CreateTable(t, cs, ks, rs)
  BY DEF Upgrade_0010, EvaluationBaselinePromotionRecord
<1>2. /\ Upgrade_0010[1] = WidenVersionColumn(64)
      /\ Upgrade_0010[3] = CreateIndex(t, i) /\ Upgrade_0010[4] = CreateIndex(t, j)
      /\ Downgrade_0010[1] = DropIndex(t, j) /\ Downgrade_0010[2] = DropIndex(t, i)
      /\ Downgrade_0010[3] = DropTable(t)
      /\ Len(Upgrade_0010) = 4 /\ Len(Downgrade_0010) = 3
  BY DEF Upgrade_0010, Downgrade_0010
<1>3. Tables(s, T) /\ t \notin T /\ rs \subseteq T
  BY TablesThere, TablesAtRevision
<1>4. SchemaAt(10) = s \cup Table(t, cs, ks, {i, j}, rs)
  <2>1. 10 \in 1 .. 16 /\ 10 # 11 /\ 10 - 1 = 9
    OBVIOUS
  <2>2. SchemaAt(10) = SchemaAt(10 - 1) \cup New(10)
    BY <2>1, SchemaGrows
  <2>3. New(10) = EvaluationBaselinePromotionRecord
    BY NewTables, FreshRecords
  <2> QED
    BY <1>1, <2>1, <2>2, <2>3
<1>5. i # j
  OBVIOUS
<1> HIDE DEF t, rs, i, j, s, T
<1> DEFINE u == s \cup Table(t, cs, ks, {}, rs)
           v == s \cup Table(t, cs, ks, {i}, rs)
           x == s \cup Table(t, cs, ks, {i, j}, rs)
<1>6. /\ Turns(s, CreateTable(t, cs, ks, rs), u) /\ Turns(u, DropTable(t), s)
      /\ Grows(CreateTable(t, cs, ks, rs)) /\ Shrinks(DropTable(t))
  BY <1>3, TableTurns
<1>7. /\ Turns(u, CreateIndex(t, i), v) /\ Turns(v, DropIndex(t, i), u)
      /\ Grows(CreateIndex(t, i)) /\ Shrinks(DropIndex(t, i))
  <2>1. i \notin {} /\ {} \cup {i} = {i}
    OBVIOUS
  <2> QED
    BY <1>3, <2>1, IndexTurns
<1>8. /\ Turns(v, CreateIndex(t, j), x) /\ Turns(x, DropIndex(t, j), v)
      /\ Grows(CreateIndex(t, j)) /\ Shrinks(DropIndex(t, j))
  <2>1. j \notin {i} /\ {i} \cup {j} = {i, j}
    BY <1>5
  <2> QED
    BY <1>3, <2>1, IndexTurns
<1>9. Turns(s, WidenVersionColumn(64), s) /\ Grows(WidenVersionColumn(64))
  BY DEF Turns, Grows, WidenVersionColumn
<1>10. x = SchemaAt(10)
  BY <1>4
<1> HIDE DEF u, v, x
<1>11. Climbs(Upgrade_0010, s, x)
  <2> DEFINE S == <<s, s, u, v, x>>
  <2>1. S[1] = s /\ S[2] = s /\ S[3] = u /\ S[4] = v /\ S[5] = x
    OBVIOUS
  <2>2. \A n \in 1 .. 4 : n = 1 \/ n = 2 \/ n = 3 \/ n = 4
    OBVIOUS
  <2> HIDE DEF S
  <2>3. \A n \in 1 .. 4 : Turns(S[n], Upgrade_0010[n], S[n + 1]) /\ Grows(Upgrade_0010[n])
    BY <1>1, <1>2, <1>6, <1>7, <1>8, <1>9, <2>1, <2>2
  <2>4. 4 \in Nat /\ 4 + 1 = 5
    OBVIOUS
  <2> QED
    BY <1>2, <2>1, <2>3, <2>4 DEF Climbs
<1>12. Falls(Downgrade_0010, x, s)
  <2> DEFINE S == <<x, v, u, s>>
  <2>1. S[1] = x /\ S[2] = v /\ S[3] = u /\ S[4] = s
    OBVIOUS
  <2>2. \A n \in 1 .. 3 : n = 1 \/ n = 2 \/ n = 3
    OBVIOUS
  <2> HIDE DEF S
  <2>3. \A n \in 1 .. 3 : Turns(S[n], Downgrade_0010[n], S[n + 1]) /\ Shrinks(Downgrade_0010[n])
    BY <1>1, <1>2, <1>6, <1>7, <1>8, <2>1, <2>2
  <2>4. 3 \in Nat /\ 3 + 1 = 4
    OBVIOUS
  <2> QED
    BY <1>2, <2>1, <2>3, <2>4 DEF Falls
<1>13. 10 - 1 = 9
  OBVIOUS
<1> QED
  BY <1>10, <1>11, <1>12, <1>13 DEF Walks, s

LEMMA RevisionsWalk ==
  \A r \in 1 .. 16 : r # 11 => Walks(r, UpgradeSteps[r], DowngradeSteps[r])
<1>1. /\ UpgradeSteps[1] = Upgrade_0001 /\ UpgradeSteps[2] = Upgrade_0002
      /\ UpgradeSteps[3] = Upgrade_0003 /\ UpgradeSteps[4] = Upgrade_0004
      /\ UpgradeSteps[5] = Upgrade_0005 /\ UpgradeSteps[6] = Upgrade_0006
      /\ UpgradeSteps[7] = Upgrade_0007 /\ UpgradeSteps[8] = Upgrade_0008
      /\ UpgradeSteps[9] = Upgrade_0009 /\ UpgradeSteps[10] = Upgrade_0010
      /\ UpgradeSteps[12] = Upgrade_0012 /\ UpgradeSteps[13] = Upgrade_0013
      /\ UpgradeSteps[14] = Upgrade_0014 /\ UpgradeSteps[15] = Upgrade_0015
      /\ UpgradeSteps[16] = Upgrade_0016
  BY DEF UpgradeSteps
<1>2. /\ DowngradeSteps[1] = Downgrade_0001 /\ DowngradeSteps[2] = Downgrade_0002
      /\ DowngradeSteps[3] = Downgrade_0003 /\ DowngradeSteps[4] = Downgrade_0004
      /\ DowngradeSteps[5] = Downgrade_0005 /\ DowngradeSteps[6] = Downgrade_0006
      /\ DowngradeSteps[7] = Downgrade_0007 /\ DowngradeSteps[8] = Downgrade_0008
      /\ DowngradeSteps[9] = Downgrade_0009 /\ DowngradeSteps[10] = Downgrade_0010
      /\ DowngradeSteps[12] = Downgrade_0012 /\ DowngradeSteps[13] = Downgrade_0013
      /\ DowngradeSteps[14] = Downgrade_0014 /\ DowngradeSteps[15] = Downgrade_0015
      /\ DowngradeSteps[16] = Downgrade_0016
  BY DEF DowngradeSteps
<1>3. \A r \in 1 .. 16 : \/ r = 1 \/ r = 2 \/ r = 3 \/ r = 4 \/ r = 5 \/ r = 6 \/ r = 7 \/ r = 8
                         \/ r = 9 \/ r = 10 \/ r = 11 \/ r = 12 \/ r = 13 \/ r = 14 \/ r = 15
                         \/ r = 16
  OBVIOUS
<1> QED
  BY <1>1, <1>2, <1>3, Walk1, Walk2, Walk3, Walk4, Walk5, Walk6, Walk7, Walk8, Walk9, Walk10,
     Walk12, Walk13, Walk14, Walk15, Walk16

-----------------------------------------------------------------------------
\* What the rows satisfy: before versions exist, after, and in the transaction of
\* revision 0011 both at once.
OnePerIndex(d) == \A b, c \in d.chunks : b.doc = c.doc /\ b.index = c.index => b = c

OnePerVersion(d) ==
  \A b, c \in d.chunks : b.doc = c.doc /\ b.version = c.version /\ b.index = c.index => b = c

Referred(d) == \A c \in d.chunks : \E v \in d.versions : v.doc = c.doc /\ v.version = c.version

OneProcessing(d) ==
  \A v, w \in d.versions :
    v.doc = w.doc /\ v.status = "processing" /\ w.status = "processing" => v = w

Distinct(versions) ==
  \A v, w \in versions : v.doc = w.doc /\ v.version = w.version => v = w

\* What a new version is numbered by is more than every number so far.
Counted(versions) ==
  \A v \in versions : v.version <= Cardinality({w \in versions : w.doc = v.doc})

RowsIn(d, p) ==
  /\ p # "new" => OnePerIndex(d)
  /\ p # "old" => OnePerVersion(d) /\ Referred(d) /\ Distinct(d.versions) /\ Counted(d.versions)
  /\ OneProcessing(d)

\* The names under which the database keeps the two constraints.
OldGuards == {OldUnique, <<"document_chunks", "index", "uq_document_chunks_document_index">>}

VersionGuards ==
  {<<"document_chunks", "constraint", "fk_document_chunks_version">>,
   <<"document_chunks", "index", "fk_document_chunks_version">>}

Guarded(s, p) ==
  (p = "old" => VersionGuards \cap s = {}) /\ (p = "new" => OldGuards \cap s = {})

Versioned(s, p) == p # "old" => Chunks \in s /\ Version \in s /\ Versions \in s

Fine(d, p) == IsDb(d) /\ d.ok = TRUE /\ Rows(d) /\ RowsIn(d, p)

LEMMA RowsAreSatisfied ==
  ASSUME NEW d, NEW p, RowsIn(d, p), Guarded(d.schema, p) PROVE RowsSatisfy(d)
<1>1. OnePerIndex(d) => OnePerVersion(d)
  BY DEF OnePerIndex, OnePerVersion
<1>2. Constrained(d, "document_chunks", "uq_document_chunks_document_index") => OnePerIndex(d)
  BY DEF Constrained, RowsIn, Guarded, OldGuards, OldUnique
<1>3. OnePerVersion(d)
  BY <1>1 DEF RowsIn
<1>4. Constrained(d, "document_chunks", "fk_document_chunks_version") => Referred(d)
  BY DEF Constrained, RowsIn, Guarded, VersionGuards
<1>5. OneProcessing(d)
  BY DEF RowsIn
<1> QED
  BY <1>2, <1>3, <1>4, <1>5
     DEF RowsSatisfy, OnePerIndex, OnePerVersion, Referred, OneProcessing

\* The rows of versions under other statuses are as many.
LEMMA Recounted ==
  ASSUME NEW S, S \subseteq VersionRow, IsFiniteSet(S), Distinct(S), Counted(S),
         NEW T, T \subseteq VersionRow, IsFiniteSet(T),
         \A v \in S : \E w \in T : w.doc = v.doc /\ w.version = v.version,
         \A w \in T : \E v \in S : w.doc = v.doc /\ w.version = v.version
  PROVE  Counted(T)
<1> SUFFICES ASSUME NEW t \in T PROVE t.version <= Cardinality({w \in T : w.doc = t.doc})
  BY DEF Counted
<1> DEFINE A == {v \in S : v.doc = t.doc}
           B == {w \in T : w.doc = t.doc}
           g == [v \in A |-> CHOOSE w \in B : w.version = v.version]
<1>1. PICK s \in S : t.doc = s.doc /\ t.version = s.version
  OBVIOUS
<1>2. s.version <= Cardinality(A)
  BY <1>1 DEF Counted
<1>3. IsFiniteSet(A) /\ IsFiniteSet(B)
  <2>1. A \in SUBSET S /\ B \in SUBSET T
    OBVIOUS
  <2> HIDE DEF A, B
  <2> QED
    BY <2>1, FS_Subset
<1>4. \A v \in A : g[v] \in B /\ g[v].version = v.version
  <2> SUFFICES ASSUME NEW v \in A PROVE g[v] \in B /\ g[v].version = v.version
    OBVIOUS
  <2>1. \E w \in B : w.version = v.version
    OBVIOUS
  <2> HIDE DEF A, B
  <2> QED
    BY <2>1
<1>5. \A v, w \in A : v.version = w.version => v = w
  BY DEF Distinct
<1> HIDE DEF A, B
<1>6. g \in Injection(A, B)
  <2>1. g \in [A -> B]
    BY <1>4
  <2>2. \A v, w \in A : g[v] = g[w] => v = w
    <3> HIDE DEF g
    <3> QED
      BY <1>4, <1>5
  <2> HIDE DEF g
  <2> QED
    BY <2>1, <2>2 DEF Injection, IsInjective
<1> HIDE DEF g
<1>7. Cardinality(A) <= Cardinality(B)
  BY <1>3, <1>6, FS_Injection
<1>8. /\ t.version \in Nat /\ Cardinality(A) \in Nat /\ Cardinality(B) \in Nat
      /\ t.version <= Cardinality(A)
  BY <1>1, <1>2, <1>3, FS_CardinalityType DEF VersionRow
<1>9. t.version <= Cardinality(B)
  BY <1>7, <1>8
<1> QED
  BY <1>9 DEF B

-----------------------------------------------------------------------------
\* One operation on rows in order is allowed, and leaves them in order.
Named(op) == \A o \in op.adds : Len(o[3]) <= MaxIdentifier

LEMMA EffectOnWidth ==
  ASSUME NEW d, IsDb(d), NEW op, Structural(op)
  PROVE  Effect(d, op).width = IF op.op = "widen" THEN op.to ELSE d.width
<1>1. CASE op.op = "drop_table"
  <2> DEFINE schema == {o \in d.schema : o[1] # op.target}
  <2>1. Effect(d, op) = [d EXCEPT !.schema = schema]
    BY <1>1 DEF Effect
  <2> HIDE DEF schema
  <2> QED
    BY <1>1, <2>1 DEF IsDb
<1>2. CASE op.op = "widen"
  <2>1. Effect(d, op) = [d EXCEPT !.width = op.to]
    BY <1>2 DEF Effect
  <2> QED
    BY <1>2, <2>1 DEF IsDb
<1>3. CASE op.op \in {"create", "drop"}
  <2> DEFINE schema == (d.schema \cup op.adds) \ op.drops
  <2>1. Effect(d, op) = [d EXCEPT !.schema = schema]
    BY <1>3 DEF Effect
  <2> HIDE DEF schema
  <2> QED
    BY <1>3, <2>1 DEF IsDb
<1> QED
  BY <1>1, <1>2, <1>3 DEF Structural

LEMMA TurnAllowed ==
  ASSUME NEW d, IsDb(d), NEW op, NEW t, Turns(d.schema, op, t), Structural(op), Named(op)
  PROVE  Allowed(d, op) /\ Effect(d, op).schema = t
<1>1. Allowed(d, op)
  BY DEF Turns, Named, Allowed
<1>2. Effect(d, op).schema = IF op.op = "drop_table" THEN {o \in d.schema : o[1] # op.target}
                             ELSE IF op.op = "widen" THEN d.schema
                             ELSE (d.schema \cup op.adds) \ op.drops
  BY EffectOnSchema
<1> QED
  BY <1>1, <1>2 DEF Turns

LEMMA AllowedExecutes ==
  ASSUME NEW d, d.ok = TRUE, NEW op, Allowed(d, op), RowsSatisfy(Settled(Effect(d, op)))
  PROVE  Execute(d, op) = Settled(Effect(d, op))
  BY DEF Execute

Grown(d, op, t, p, e) ==
  /\ Fine(e, p) /\ SameRows(d, e) /\ e.schema = t
  /\ e.width = IF op.op = "widen" THEN 64 ELSE d.width

LEMMA GrowStep ==
  ASSUME NEW d, NEW p, Fine(d, p), NEW op, NEW t, Turns(d.schema, op, t), Grows(op), Named(op),
         Guarded(t, p)
  PROVE  Grown(d, op, t, p, Execute(d, op))
<1> DEFINE f == Effect(d, op)
<1>1. Structural(op) /\ IsDb(d) /\ Rows(d) /\ d.ok = TRUE /\ RowsIn(d, p)
  BY DEF Grows, Structural, Fine
<1>2. IsDb(f) /\ SameRows(d, f) /\ f.ok = d.ok
  BY <1>1, EffectOnSchema
<1>3. Allowed(d, op) /\ f.schema = t
  BY <1>1, TurnAllowed
<1>4. f.width = IF op.op = "widen" THEN 64 ELSE d.width
  BY <1>1, EffectOnWidth DEF Grows
<1>5. d.schema \subseteq t
  BY DEF Turns, Grows
<1>6. Execute(d, op) = Settled(f) \/ ~RowsSatisfy(Settled(f))
  BY <1>1, <1>3, AllowedExecutes
<1> HIDE DEF f
<1>7. KeysOf(d) \subseteq KeysOf(f)
  BY <1>3, <1>5 DEF KeysOf
<1>8. Settled(f) = f /\ Rows(f)
  BY <1>1, <1>2, <1>7, SettledGrows
<1>9. RowsIn(f, p)
  BY <1>1, <1>2 DEF RowsIn, SameRows, OnePerIndex, OnePerVersion, Referred, OneProcessing
<1>10. RowsSatisfy(f)
  BY <1>3, <1>9, RowsAreSatisfied
<1> QED
  BY <1>1, <1>2, <1>3, <1>4, <1>6, <1>8, <1>9, <1>10 DEF Grown, Fine

Shrunk(d, t, p, e) == Fine(e, p) /\ e.schema = t /\ e.width = d.width

LEMMA ShrinkStep ==
  ASSUME NEW d, NEW p, Fine(d, p), NEW op, NEW t, Turns(d.schema, op, t), Shrinks(op),
         Guarded(t, p), Versioned(t, p)
  PROVE  Shrunk(d, t, p, Execute(d, op))
<1> DEFINE f == Effect(d, op)
           e == Settled(f)
<1>1. Structural(op) /\ IsDb(d) /\ Rows(d) /\ d.ok = TRUE /\ RowsIn(d, p) /\ Named(op)
  BY DEF Shrinks, Structural, Fine, Named
<1>2. IsDb(f) /\ SameRows(d, f) /\ f.ok = d.ok
  BY <1>1, EffectOnSchema
<1>3. Allowed(d, op) /\ f.schema = t
  BY <1>1, TurnAllowed
<1>4. f.width = d.width
  BY <1>1, EffectOnWidth DEF Shrinks
<1>5. Execute(d, op) = e \/ ~RowsSatisfy(e)
  BY <1>1, <1>3, AllowedExecutes
<1> HIDE DEF f
<1>6. /\ IsDb(e) /\ e.schema = t /\ e.width = d.width /\ e.ok = TRUE
      /\ e.chunks = IF Chunks \notin t THEN {}
                    ELSE IF Version \in t THEN d.chunks
                    ELSE {[c EXCEPT !.version = 1] : c \in d.chunks}
      /\ e.versions = IF Versions \notin t THEN {}
                      ELSE IF Status \in t THEN d.versions
                      ELSE {[v EXCEPT !.status = "ready"] : v \in d.versions}
  <2>1. /\ IsDb(e) /\ e.schema = f.schema /\ e.width = f.width /\ e.ok = f.ok
        /\ e.chunks = IF Chunks \notin f.schema THEN {}
                      ELSE IF Version \in f.schema THEN f.chunks
                      ELSE {[c EXCEPT !.version = 1] : c \in f.chunks}
        /\ e.versions = IF Versions \notin f.schema THEN {}
                        ELSE IF Status \in f.schema THEN f.versions
                        ELSE {[v EXCEPT !.status = "ready"] : v \in f.versions}
    BY <1>2, SettledFields
  <2> HIDE DEF e
  <2>2. f.chunks = d.chunks /\ f.versions = d.versions
    BY <1>2 DEF SameRows
  <2> QED
    BY <1>1, <1>2, <1>3, <1>4, <2>1, <2>2
<1>7. Rows(e)
  BY <1>1, <1>2, SettledFits DEF Rows, SameRows
<1> HIDE DEF e
<1>8. p # "new" => OnePerIndex(e)
  <2> SUFFICES ASSUME OnePerIndex(d) PROVE OnePerIndex(e)
    BY <1>1 DEF RowsIn
  <2>1. CASE Chunks \notin t
    BY <1>6, <2>1 DEF OnePerIndex
  <2>2. CASE Chunks \in t /\ Version \in t
    BY <1>6, <2>2 DEF OnePerIndex
  <2>3. CASE Chunks \in t /\ Version \notin t
    <3> DEFINE first(c) == [c EXCEPT !.version = 1]
    <3>1. e.chunks = {first(c) : c \in d.chunks}
      BY <1>6, <2>3
    <3>2. \A c \in d.chunks : first(c).doc = c.doc /\ first(c).index = c.index
      BY <1>1 DEF Rows, ChunkRow
    <3> HIDE DEF first
    <3> QED
      BY <3>1, <3>2 DEF OnePerIndex
  <2> QED
    BY <2>1, <2>2, <2>3
<1>9. d.versions \subseteq VersionRow /\ IsFiniteSet(d.versions)
      /\ e.versions \subseteq VersionRow /\ IsFiniteSet(e.versions)
  BY <1>1, <1>7 DEF Rows
<1> DEFINE ready(v) == [v EXCEPT !.status = "ready"]
<1>10. \A v \in d.versions :
         ready(v).doc = v.doc /\ ready(v).version = v.version /\ ready(v).status = "ready"
  BY <1>9 DEF VersionRow
<1>11. \/ e.versions = {} /\ Versions \notin t
       \/ e.versions = d.versions
       \/ e.versions = {ready(v) : v \in d.versions}
  BY <1>6
<1> HIDE DEF ready
<1>12. OneProcessing(e)
  <2>1. CASE e.versions = {}
    BY <2>1 DEF OneProcessing
  <2>2. CASE e.versions = d.versions
    BY <1>1, <2>2 DEF OneProcessing, RowsIn
  <2>3. CASE e.versions = {ready(v) : v \in d.versions}
    BY <1>10, <2>3 DEF OneProcessing
  <2> QED
    BY <1>11, <2>1, <2>2, <2>3
<1>13. p # "old" =>
         OnePerVersion(e) /\ Referred(e) /\ Distinct(e.versions) /\ Counted(e.versions)
  <2> SUFFICES ASSUME p # "old"
               PROVE  OnePerVersion(e) /\ Referred(e) /\ Distinct(e.versions) /\ Counted(e.versions)
    OBVIOUS
  <2>1. /\ OnePerVersion(d) /\ Referred(d) /\ Distinct(d.versions) /\ Counted(d.versions)
        /\ Chunks \in t /\ Version \in t /\ Versions \in t
    BY <1>1 DEF RowsIn, Versioned
  <2>2. e.chunks = d.chunks
    BY <1>6, <2>1
  <2>3. /\ \A v \in d.versions : \E w \in e.versions : w.doc = v.doc /\ w.version = v.version
        /\ \A w \in e.versions : \E v \in d.versions : w.doc = v.doc /\ w.version = v.version
    BY <1>10, <1>11, <2>1
  <2>4. Distinct(e.versions)
    <3>1. CASE e.versions = d.versions
      BY <2>1, <3>1
    <3>2. CASE e.versions = {ready(v) : v \in d.versions}
      BY <1>10, <2>1, <3>2 DEF Distinct
    <3> QED
      BY <1>11, <2>1, <3>1, <3>2
  <2>5. Counted(e.versions)
    BY <1>9, <2>1, <2>3, Recounted
  <2>6. OnePerVersion(e)
    BY <2>1, <2>2 DEF OnePerVersion
  <2>7. Referred(e)
    BY <2>1, <2>2, <2>3 DEF Referred
  <2> QED
    BY <2>4, <2>5, <2>6, <2>7
<1>14. RowsIn(e, p)
  BY <1>8, <1>12, <1>13 DEF RowsIn
<1>15. RowsSatisfy(e)
  BY <1>6, <1>14, RowsAreSatisfied
<1>16. Execute(d, op) = e
  BY <1>5, <1>15
<1> QED
  BY <1>6, <1>7, <1>14, <1>16 DEF Shrunk, Fine

\* A schema that only grows, or only shrinks, lies between its ends throughout.
Chained(S, L) == L \in Nat /\ \A n \in 1 .. L : S[n] \subseteq S[n + 1]

LEMMA ChainedFrom ==
  ASSUME NEW S, NEW L, Chained(S, L) PROVE \A m \in 1 .. L + 1 : S[1] \subseteq S[m]
<1> DEFINE D == {n \in 0 .. L : S[1] \subseteq S[n + 1]}
<1>1. L \in Nat
  BY DEF Chained
<1>2. 0 \in D
  <2>1. 0 + 1 = 1 /\ 0 \in 0 .. L
    BY <1>1
  <2>2. S[1] \subseteq S[0 + 1]
    BY <2>1
  <2> QED
    BY <2>1, <2>2
<1>3. \A n \in 0 .. L - 1 : n \in D => n + 1 \in D
  <2> SUFFICES ASSUME NEW n \in 0 .. L - 1, S[1] \subseteq S[n + 1] PROVE n + 1 \in D
    OBVIOUS
  <2>1. n + 1 \in 1 .. L /\ n + 1 \in 0 .. L
    BY <1>1
  <2>2. S[n + 1] \subseteq S[(n + 1) + 1]
    BY <2>1 DEF Chained
  <2> QED
    BY <2>1, <2>2
<1>4. 0 .. L \subseteq D
  <2> HIDE DEF D
  <2> QED
    BY <1>1, <1>2, <1>3, SetInduction
<1>5. ASSUME NEW m \in 1 .. L + 1 PROVE S[1] \subseteq S[m]
  <2>1. m - 1 \in 0 .. L /\ (m - 1) + 1 = m
    BY <1>1
  <2>2. S[1] \subseteq S[(m - 1) + 1]
    BY <1>4, <2>1
  <2> QED
    BY <2>1, <2>2
<1> QED
  BY <1>5

LEMMA ChainedTo ==
  ASSUME NEW S, NEW L, Chained(S, L) PROVE \A m \in 1 .. L + 1 : S[m] \subseteq S[L + 1]
<1> DEFINE D == {n \in 0 .. L : S[L + 1 - n] \subseteq S[L + 1]}
<1>1. L \in Nat
  BY DEF Chained
<1>2. 0 \in D
  <2>1. L + 1 - 0 = L + 1 /\ 0 \in 0 .. L
    BY <1>1
  <2>2. S[L + 1 - 0] \subseteq S[L + 1]
    BY <2>1
  <2> QED
    BY <2>1, <2>2
<1>3. \A n \in 0 .. L - 1 : n \in D => n + 1 \in D
  <2> SUFFICES ASSUME NEW n \in 0 .. L - 1, S[L + 1 - n] \subseteq S[L + 1] PROVE n + 1 \in D
    OBVIOUS
  <2> DEFINE k == L + 1 - (n + 1)
  <2>1. k \in 1 .. L /\ n + 1 \in 0 .. L /\ k + 1 = L + 1 - n
    BY <1>1
  <2>2. S[k] \subseteq S[k + 1]
    <3> HIDE DEF k
    <3> QED
      BY <2>1 DEF Chained
  <2>3. S[k + 1] = S[L + 1 - n]
    BY <2>1
  <2> QED
    BY <2>1, <2>2, <2>3
<1>4. 0 .. L \subseteq D
  <2> HIDE DEF D
  <2> QED
    BY <1>1, <1>2, <1>3, SetInduction
<1>5. ASSUME NEW m \in 1 .. L + 1 PROVE S[m] \subseteq S[L + 1]
  <2>1. L + 1 - m \in 0 .. L /\ L + 1 - (L + 1 - m) = m
    BY <1>1
  <2>2. S[L + 1 - (L + 1 - m)] \subseteq S[L + 1]
    BY <1>4, <2>1
  <2> QED
    BY <2>1, <2>2
<1> QED
  BY <1>5

\* The schemas a revision passes through.
Rises(S, L, steps, s, t) ==
  /\ L \in Nat /\ Len(steps) = L /\ S[1] = s /\ S[L + 1] = t
  /\ \A n \in 1 .. L : Turns(S[n], steps[n], S[n + 1]) /\ Grows(steps[n])

Sinks(S, L, steps, s, t) ==
  /\ L \in Nat /\ Len(steps) = L /\ S[1] = s /\ S[L + 1] = t
  /\ \A n \in 1 .. L : Turns(S[n], steps[n], S[n + 1]) /\ Shrinks(steps[n])

LEMMA RisesWithin ==
  ASSUME NEW S, NEW L, NEW steps, NEW s, NEW t, Rises(S, L, steps, s, t)
  PROVE  \A m \in 1 .. L + 1 : s \subseteq S[m] /\ S[m] \subseteq t
<1>1. ASSUME NEW n \in 1 .. L PROVE S[n] \subseteq S[n + 1]
  <2>1. Turns(S[n], steps[n], S[n + 1]) /\ Grows(steps[n])
    BY DEF Rises
  <2> QED
    BY <2>1 DEF Turns, Grows
<1>2. Chained(S, L)
  BY <1>1 DEF Chained, Rises
<1>3. S[1] = s /\ S[L + 1] = t
  BY DEF Rises
<1>4. \A m \in 1 .. L + 1 : S[1] \subseteq S[m]
  BY <1>2, ChainedFrom
<1>5. \A m \in 1 .. L + 1 : S[m] \subseteq S[L + 1]
  BY <1>2, ChainedTo
<1> QED
  BY <1>3, <1>4, <1>5

LEMMA SinksWithin ==
  ASSUME NEW S, NEW L, NEW steps, NEW s, NEW t, Sinks(S, L, steps, s, t)
  PROVE  \A m \in 1 .. L + 1 : t \subseteq S[m] /\ S[m] \subseteq s
<1> DEFINE R == [n \in 1 .. L + 1 |-> S[L + 2 - n]]
<1>1. L \in Nat /\ S[1] = s /\ S[L + 1] = t
  BY DEF Sinks
<1>2. ASSUME NEW n \in 1 .. L PROVE R[n] \subseteq R[n + 1]
  <2> DEFINE k == L + 1 - n
  <2>1. /\ k \in 1 .. L /\ n \in 1 .. L + 1 /\ n + 1 \in 1 .. L + 1
        /\ L + 2 - n = k + 1 /\ L + 2 - (n + 1) = k
    BY <1>1
  <2>2. R[n] = S[k + 1] /\ R[n + 1] = S[k]
    BY <2>1
  <2> HIDE DEF k, R
  <2>3. Turns(S[k], steps[k], S[k + 1]) /\ Shrinks(steps[k])
    BY <2>1 DEF Sinks
  <2>4. S[k + 1] \subseteq S[k]
    BY <2>3 DEF Turns, Shrinks
  <2> QED
    BY <2>2, <2>4
<1>3. R[1] = t /\ R[L + 1] = s
  <2>1. 1 \in 1 .. L + 1 /\ L + 1 \in 1 .. L + 1 /\ L + 2 - 1 = L + 1 /\ L + 2 - (L + 1) = 1
    BY <1>1
  <2> QED
    BY <1>1, <2>1
<1>4. \A m \in 1 .. L + 1 : \E k \in 1 .. L + 1 : S[m] = R[k]
  <2> SUFFICES ASSUME NEW m \in 1 .. L + 1 PROVE \E k \in 1 .. L + 1 : S[m] = R[k]
    OBVIOUS
  <2>1. L + 2 - m \in 1 .. L + 1 /\ L + 2 - (L + 2 - m) = m
    BY <1>1
  <2>2. R[L + 2 - m] = S[m]
    BY <2>1
  <2> QED
    BY <2>1, <2>2
<1> HIDE DEF R
<1>5. Chained(R, L)
  BY <1>1, <1>2 DEF Chained
<1>6. \A m \in 1 .. L + 1 : R[1] \subseteq R[m]
  BY <1>5, ChainedFrom
<1>7. \A m \in 1 .. L + 1 : R[m] \subseteq R[L + 1]
  BY <1>5, ChainedTo
<1> QED
  BY <1>3, <1>4, <1>6, <1>7

-----------------------------------------------------------------------------
\* A whole revision, on rows in order, is executed and leaves them in order.
NamedAll(steps, L) == \A n \in 1 .. L : Named(steps[n])

Ascends(d, p, S, L, steps, t) ==
  /\ Rises(S, L, steps, d.schema, t) /\ NamedAll(steps, L)
  /\ \A m \in 1 .. L + 1 : Guarded(S[m], p)
  /\ Fine(d, p)

Descends(d, p, S, L, steps, t) ==
  /\ Sinks(S, L, steps, d.schema, t)
  /\ \A m \in 1 .. L + 1 : Guarded(S[m], p) /\ Versioned(S[m], p)
  /\ Fine(d, p)

Arrived(d, p, t, e) == Fine(e, p) /\ e.schema = t /\ (d.width = 64 => e.width = 64)
                       /\ e.width \in {d.width, 64}

LEMMA Ascent ==
  ASSUME NEW d, NEW p, NEW S, NEW L, NEW steps, NEW t, Ascends(d, p, S, L, steps, t)
  PROVE  /\ Arrived(d, p, t, Execution(d, steps)[Len(steps)])
         /\ L >= 1 /\ steps[1].op = "widen" => Execution(d, steps)[Len(steps)].width = 64
<1> DEFINE after == Execution(d, steps)
           D == {n \in 0 .. L : /\ Fine(after[n], p) /\ after[n].schema = S[n + 1]
                                /\ after[n].width \in {d.width, 64}
                                /\ n >= 1 /\ steps[1].op = "widen" => after[n].width = 64}
<1>1. L \in Nat /\ Len(steps) = L /\ S[1] = d.schema /\ S[L + 1] = t
  BY DEF Ascends, Rises
<1>2. Fine(d, p)
  BY DEF Ascends
<1>3. after[0] = d /\ \A n \in 1 .. L : after[n] = Execute(after[n - 1], steps[n])
  BY <1>1, ExecutionIs
<1> HIDE DEF after
<1>4. 0 \in D
  <2>1. 0 \in 0 .. L /\ 0 + 1 = 1 /\ ~(0 >= 1)
    BY <1>1
  <2> QED
    BY <1>1, <1>2, <1>3, <2>1
<1>5. \A n \in 0 .. L - 1 : n \in D => n + 1 \in D
  <2> SUFFICES ASSUME NEW n \in 0 .. L - 1, n \in D PROVE n + 1 \in D
    OBVIOUS
  <2>1. /\ n + 1 \in 1 .. L /\ n + 1 \in 0 .. L /\ (n + 1) - 1 = n
        /\ (n + 1) + 1 \in 1 .. L + 1 /\ n \in 0 .. L
        /\ (n + 1 >= 1 => n + 1 = 1 \/ n >= 1)
    BY <1>1
  <2> DEFINE m == n + 1
             f == after[n]
             op == steps[m]
             u == S[m + 1]
  <2>2. /\ Fine(f, p) /\ f.schema = S[m] /\ f.width \in {d.width, 64}
        /\ n >= 1 /\ steps[1].op = "widen" => f.width = 64
    OBVIOUS
  <2>3. after[m] = Execute(f, op)
    BY <1>3, <2>1
  <2> HIDE DEF D
  <2>4. Turns(S[m], op, u) /\ Grows(op) /\ Named(op) /\ Guarded(u, p)
    BY <2>1 DEF Ascends, Rises, NamedAll
  <2>5. m = 1 => op = steps[1]
    OBVIOUS
  <2>6. m \in 0 .. L /\ (m >= 1 => m = 1 \/ n >= 1)
    BY <2>1
  <2> HIDE DEF m, f, op, u
  <2>7. Turns(f.schema, op, u)
    BY <2>2, <2>4
  <2>8. Grown(f, op, u, p, Execute(f, op))
    BY <2>2, <2>4, <2>7, GrowStep
  <2>9. /\ Fine(after[m], p) /\ after[m].schema = u
        /\ after[m].width = IF op.op = "widen" THEN 64 ELSE f.width
    BY <2>3, <2>8 DEF Grown
  <2>10. after[m].width \in {d.width, 64}
    BY <2>2, <2>9
  <2>11. m >= 1 /\ steps[1].op = "widen" => after[m].width = 64
    BY <2>2, <2>5, <2>6, <2>9
  <2>12. after[m].schema = S[m + 1]
    BY <2>9 DEF u
  <2>13. m \in D
    BY <2>6, <2>9, <2>10, <2>11, <2>12 DEF D
  <2> QED
    BY <2>13 DEF m
<1>6. L \in D
  <2> HIDE DEF D
  <2>1. 0 .. L \subseteq D
    BY <1>1, <1>4, <1>5, SetInduction
  <2> QED
    BY <1>1, <2>1
<1>7. /\ Fine(after[L], p) /\ after[L].schema = t /\ after[L].width \in {d.width, 64}
      /\ L >= 1 /\ steps[1].op = "widen" => after[L].width = 64
  BY <1>1, <1>6
<1> HIDE DEF D
<1> QED
  BY <1>1, <1>7 DEF Arrived, after

LEMMA Descent ==
  ASSUME NEW d, NEW p, NEW S, NEW L, NEW steps, NEW t, Descends(d, p, S, L, steps, t)
  PROVE  Arrived(d, p, t, Execution(d, steps)[Len(steps)])
<1> DEFINE after == Execution(d, steps)
           D == {n \in 0 .. L : /\ Fine(after[n], p) /\ after[n].schema = S[n + 1]
                                /\ after[n].width = d.width}
<1>1. L \in Nat /\ Len(steps) = L /\ S[1] = d.schema /\ S[L + 1] = t
  BY DEF Descends, Sinks
<1>2. Fine(d, p)
  BY DEF Descends
<1>3. after[0] = d /\ \A n \in 1 .. L : after[n] = Execute(after[n - 1], steps[n])
  BY <1>1, ExecutionIs
<1> HIDE DEF after
<1>4. 0 \in D
  <2>1. 0 \in 0 .. L /\ 0 + 1 = 1
    BY <1>1
  <2> QED
    BY <1>1, <1>2, <1>3, <2>1
<1>5. \A n \in 0 .. L - 1 : n \in D => n + 1 \in D
  <2> SUFFICES ASSUME NEW n \in 0 .. L - 1, n \in D PROVE n + 1 \in D
    OBVIOUS
  <2>1. /\ n + 1 \in 1 .. L /\ n + 1 \in 0 .. L /\ (n + 1) - 1 = n
        /\ (n + 1) + 1 \in 1 .. L + 1 /\ n \in 0 .. L
    BY <1>1
  <2> DEFINE m == n + 1
             f == after[n]
             op == steps[m]
             u == S[m + 1]
  <2>2. Fine(f, p) /\ f.schema = S[m] /\ f.width = d.width
    OBVIOUS
  <2>3. after[m] = Execute(f, op)
    BY <1>3, <2>1
  <2> HIDE DEF D
  <2>4. Turns(S[m], op, u) /\ Shrinks(op) /\ Guarded(u, p) /\ Versioned(u, p)
    BY <2>1 DEF Descends, Sinks
  <2>5. m \in 0 .. L
    BY <2>1
  <2> HIDE DEF m, f, op, u
  <2>6. Turns(f.schema, op, u)
    BY <2>2, <2>4
  <2>7. Shrunk(f, u, p, Execute(f, op))
    BY <2>2, <2>4, <2>6, ShrinkStep
  <2>8. Fine(after[m], p) /\ after[m].schema = u /\ after[m].width = d.width
    BY <2>2, <2>3, <2>7 DEF Shrunk
  <2>9. after[m].schema = S[m + 1]
    BY <2>8 DEF u
  <2>10. m \in D
    BY <2>5, <2>8, <2>9 DEF D
  <2> QED
    BY <2>10 DEF m
<1>6. L \in D
  <2> HIDE DEF D
  <2>1. 0 .. L \subseteq D
    BY <1>1, <1>4, <1>5, SetInduction
  <2> QED
    BY <1>1, <2>1
<1>7. Fine(after[L], p) /\ after[L].schema = t /\ after[L].width = d.width
  BY <1>1, <1>6
<1> HIDE DEF D
<1> QED
  BY <1>1, <1>7 DEF Arrived, after

-----------------------------------------------------------------------------
\* Which guards and which tables are there at which revision.
LEMMA GuardNames ==
  /\ <<"document_chunks", "index", "fk_document_chunks_version">> \notin Declared
  /\ <<"document_chunks", "index", "uq_document_chunks_document_index">> \notin Declared
<1>1. PICK cs, ks, is, rs :
        /\ DocumentChunkRecord = Table("document_chunks", cs, ks, is, rs)
        /\ "fk_document_chunks_version" \notin is /\ "uq_document_chunks_document_index" \notin is
  BY DEF DocumentChunkRecord
<1>2. ASSUME NEW i, i \notin is PROVE <<"document_chunks", "index", i>> \notin Declared
  <2> DEFINE o == <<"document_chunks", "index", i>>
  <2>1. o \notin DocumentChunkRecord
    BY <1>1, <1>2, TableIs
  <2>2. o # OldUnique /\ o[1] = "document_chunks"
    BY DEF OldUnique
  <2> HIDE DEF o
  <2>3. o \notin Declared
    BY <2>1, <2>2, DeclaredOf
  <2> QED
    BY <2>3 DEF o
<1> QED
  BY <1>1, <1>2

LEMMA GuardsAt ==
  ASSUME NEW r \in 0 .. 16
  PROVE  /\ r <= 10 => Guarded(SchemaAt(r), "old")
         /\ r >= 11 => Guarded(SchemaAt(r), "new") /\ Versioned(SchemaAt(r), "new")
<1> DEFINE fk == <<"document_chunks", "constraint", "fk_document_chunks_version">>
<1>1. fk \in VersionObjects /\ Version \in VersionObjects
  BY DEF VersionObjects, Version
<1>2. Since(fk) = 11 /\ Since(Version) = 11 /\ Version \in Declared /\ Version # OldUnique
  BY <1>1, SinceIs, LaterDeclared, OldUniqueIs DEF LaterObjects
<1>3. SchemaAt(r) \subseteq Declared
  BY DEF SchemaAt
<1>4. ASSUME r <= 10 PROVE Guarded(SchemaAt(r), "old")
  <2>1. fk \notin SchemaAt(r)
    <3> HIDE DEF fk
    <3> QED
      BY <1>2, <1>4 DEF SchemaAt
  <2> QED
    BY <1>3, <2>1, GuardNames DEF Guarded, VersionGuards
<1>5. ASSUME r >= 11 PROVE Guarded(SchemaAt(r), "new") /\ Versioned(SchemaAt(r), "new")
  <2>1. r \in 11 .. 16
    BY <1>5
  <2>2. OldUnique \notin SchemaAt(r)
    BY <2>1, SchemaGrows
  <2>3. Guarded(SchemaAt(r), "new")
    BY <1>3, <2>2, GuardNames DEF Guarded, OldGuards
  <2>4. /\ Chunks \in Declared /\ Since(Chunks) = 3 /\ Chunks # OldUnique
        /\ Versions \in Declared /\ Since(Versions) = 11 /\ Versions # OldUnique
    BY TablesDeclared, BornIs DEF Chunks, Versions, TableNames, OldUnique
  <2>5. Chunks \in SchemaAt(r) /\ Versions \in SchemaAt(r) /\ Version \in SchemaAt(r)
    BY <1>2, <1>5, <2>4 DEF SchemaAt
  <2> QED
    BY <2>3, <2>5 DEF Versioned
<1> QED
  BY <1>4, <1>5

LEMMA GuardedWithin ==
  ASSUME NEW p, NEW s, NEW t, s \subseteq t
  PROVE  (Guarded(t, p) => Guarded(s, p)) /\ (Versioned(s, p) => Versioned(t, p))
  BY DEF Guarded, Versioned

\* What was named to be added fits.
LEMMA StepsNamed ==
  ASSUME NEW r \in 1 .. 16, NEW steps, steps \in {UpgradeSteps[r], DowngradeSteps[r]},
         NEW L \in Nat, Len(steps) = L, DOMAIN steps = 1 .. L
  PROVE  NamedAll(steps, L)
  BY ObjectNamesFit, HeadIs DEF NamedAll, Named

Listed(steps) == Len(steps) \in Nat /\ DOMAIN steps = 1 .. Len(steps)

LEMMA RevisionsListed ==
  \A r \in 1 .. 16 : Listed(UpgradeSteps[r]) /\ Listed(DowngradeSteps[r])
<1>1. Listed(Upgrade_0001) /\ Listed(Downgrade_0001)
  BY DEF Listed, Upgrade_0001, Downgrade_0001
<1>2. Listed(Upgrade_0002) /\ Listed(Downgrade_0002)
  BY DEF Listed, Upgrade_0002, Downgrade_0002
<1>3. Listed(Upgrade_0003) /\ Listed(Downgrade_0003)
  BY DEF Listed, Upgrade_0003, Downgrade_0003
<1>4. Listed(Upgrade_0004) /\ Listed(Downgrade_0004)
  BY DEF Listed, Upgrade_0004, Downgrade_0004
<1>5. Listed(Upgrade_0005) /\ Listed(Downgrade_0005)
  BY DEF Listed, Upgrade_0005, Downgrade_0005
<1>6. Listed(Upgrade_0006) /\ Listed(Downgrade_0006)
  BY DEF Listed, Upgrade_0006, Downgrade_0006
<1>7. Listed(Upgrade_0007) /\ Listed(Downgrade_0007)
  BY DEF Listed, Upgrade_0007, Downgrade_0007
<1>8. Listed(Upgrade_0008) /\ Listed(Downgrade_0008)
  BY DEF Listed, Upgrade_0008, Downgrade_0008
<1>9. Listed(Upgrade_0009) /\ Listed(Downgrade_0009)
  BY DEF Listed, Upgrade_0009, Downgrade_0009
<1>10. Listed(Upgrade_0010) /\ Listed(Downgrade_0010)
  BY DEF Listed, Upgrade_0010, Downgrade_0010
<1>11. Listed(Upgrade_0011) /\ Listed(Downgrade_0011)
  BY DEF Listed, Upgrade_0011, Downgrade_0011
<1>12. Listed(Upgrade_0012) /\ Listed(Downgrade_0012)
  BY DEF Listed, Upgrade_0012, Downgrade_0012
<1>13. Listed(Upgrade_0013) /\ Listed(Downgrade_0013)
  BY DEF Listed, Upgrade_0013, Downgrade_0013
<1>14. Listed(Upgrade_0014) /\ Listed(Downgrade_0014)
  BY DEF Listed, Upgrade_0014, Downgrade_0014
<1>15. Listed(Upgrade_0015) /\ Listed(Downgrade_0015)
  BY DEF Listed, Upgrade_0015, Downgrade_0015
<1>16. Listed(Upgrade_0016) /\ Listed(Downgrade_0016)
  BY DEF Listed, Upgrade_0016, Downgrade_0016
<1>17. \A r \in 1 .. 16 :
         \/ r = 1 \/ r = 2 \/ r = 3 \/ r = 4 \/ r = 5 \/ r = 6 \/ r = 7 \/ r = 8 \/ r = 9
         \/ r = 10 \/ r = 11 \/ r = 12 \/ r = 13 \/ r = 14 \/ r = 15 \/ r = 16
  OBVIOUS
<1>18. /\ UpgradeSteps[1] = Upgrade_0001 /\ UpgradeSteps[2] = Upgrade_0002
       /\ UpgradeSteps[3] = Upgrade_0003 /\ UpgradeSteps[4] = Upgrade_0004
       /\ UpgradeSteps[5] = Upgrade_0005 /\ UpgradeSteps[6] = Upgrade_0006
       /\ UpgradeSteps[7] = Upgrade_0007 /\ UpgradeSteps[8] = Upgrade_0008
       /\ UpgradeSteps[9] = Upgrade_0009 /\ UpgradeSteps[10] = Upgrade_0010
       /\ UpgradeSteps[11] = Upgrade_0011 /\ UpgradeSteps[12] = Upgrade_0012
       /\ UpgradeSteps[13] = Upgrade_0013 /\ UpgradeSteps[14] = Upgrade_0014
       /\ UpgradeSteps[15] = Upgrade_0015 /\ UpgradeSteps[16] = Upgrade_0016
  BY DEF UpgradeSteps
<1>19. /\ DowngradeSteps[1] = Downgrade_0001 /\ DowngradeSteps[2] = Downgrade_0002
       /\ DowngradeSteps[3] = Downgrade_0003 /\ DowngradeSteps[4] = Downgrade_0004
       /\ DowngradeSteps[5] = Downgrade_0005 /\ DowngradeSteps[6] = Downgrade_0006
       /\ DowngradeSteps[7] = Downgrade_0007 /\ DowngradeSteps[8] = Downgrade_0008
       /\ DowngradeSteps[9] = Downgrade_0009 /\ DowngradeSteps[10] = Downgrade_0010
       /\ DowngradeSteps[11] = Downgrade_0011 /\ DowngradeSteps[12] = Downgrade_0012
       /\ DowngradeSteps[13] = Downgrade_0013 /\ DowngradeSteps[14] = Downgrade_0014
       /\ DowngradeSteps[15] = Downgrade_0015 /\ DowngradeSteps[16] = Downgrade_0016
  BY DEF DowngradeSteps
<1> QED
  BY <1>1, <1>2, <1>3, <1>4, <1>5, <1>6, <1>7, <1>8, <1>9, <1>10,
     <1>11, <1>12, <1>13, <1>14, <1>15, <1>16, <1>17, <1>18, <1>19

\* The database between two migrations: its schema is that of its revision.
PhaseAt(r) == IF r <= 10 THEN "old" ELSE "new"

Good(d, r) ==
  /\ Fine(d, PhaseAt(r)) /\ d.schema = SchemaAt(r)
  /\ d.width \in {32, 64} /\ (r >= 10 => d.width = 64)

LEMMA ClimbsWell ==
  ASSUME NEW r \in 1 .. 16, r # 11, NEW d, Good(d, r - 1)
  PROVE  Good(Execution(d, UpgradeSteps[r])[Len(UpgradeSteps[r])], r)
<1> DEFINE p == PhaseAt(r)
           s == SchemaAt(r - 1)
           t == SchemaAt(r)
           steps == UpgradeSteps[r]
           e == Execution(d, steps)[Len(steps)]
<1>1. /\ r - 1 \in 0 .. 16 /\ r \in 0 .. 16 /\ PhaseAt(r - 1) = p
      /\ (r >= 11 => r - 1 >= 11) /\ (r >= 10 => r = 10 \/ r - 1 >= 10)
  BY DEF PhaseAt
<1>2. Fine(d, p) /\ d.schema = s /\ d.width \in {32, 64} /\ (r - 1 >= 10 => d.width = 64)
  BY <1>1 DEF Good
<1>3. Climbs(steps, s, t)
  BY RevisionsWalk DEF Walks
<1>4. PICK S, L : Rises(S, L, steps, s, t)
  BY <1>3 DEF Climbs, Rises
<1>5. Listed(steps) /\ steps \in {UpgradeSteps[r], DowngradeSteps[r]}
  BY RevisionsListed
<1>6. Guarded(t, p)
  <2>1. CASE r <= 10
    BY <1>1, <2>1, GuardsAt DEF PhaseAt
  <2>2. CASE r >= 11
    BY <1>1, <2>2, GuardsAt DEF PhaseAt
  <2> QED
    BY <2>1, <2>2
<1>7. r = 10 => steps[1].op = "widen" /\ Len(steps) = 4
  <2>1. UpgradeSteps[10] = Upgrade_0010
    BY DEF UpgradeSteps
  <2>2. Upgrade_0010[1] = WidenVersionColumn(64) /\ Len(Upgrade_0010) = 4
    BY DEF Upgrade_0010
  <2>3. WidenVersionColumn(64).op = "widen"
    BY DEF WidenVersionColumn
  <2> QED
    BY <2>1, <2>2, <2>3
<1> HIDE DEF s, t, p, steps, e
<1>8. Len(steps) = L /\ L \in Nat /\ DOMAIN steps = 1 .. L
  BY <1>4, <1>5 DEF Rises, Listed
<1>9. NamedAll(steps, L)
  BY <1>5, <1>8, StepsNamed
<1>10. \A m \in 1 .. L + 1 : s \subseteq S[m] /\ S[m] \subseteq t
  BY <1>4, RisesWithin
<1>11. \A m \in 1 .. L + 1 : Guarded(S[m], p)
  BY <1>6, <1>10, GuardedWithin
<1>12. Ascends(d, p, S, L, steps, t)
  BY <1>2, <1>4, <1>9, <1>11 DEF Ascends
<1>13. /\ Arrived(d, p, t, Execution(d, steps)[Len(steps)])
       /\ L >= 1 /\ steps[1].op = "widen" => Execution(d, steps)[Len(steps)].width = 64
  BY <1>12, Ascent
<1>14. Fine(e, p) /\ e.schema = t /\ e.width \in {d.width, 64} /\ (d.width = 64 => e.width = 64)
  BY <1>13 DEF Arrived, e
<1>15. r = 10 => e.width = 64
  <2>1. r = 10 => L >= 1 /\ steps[1].op = "widen"
    BY <1>7, <1>8
  <2> QED
    BY <1>13, <2>1 DEF e
<1>16. e.width \in {32, 64} /\ (r >= 10 => e.width = 64)
  BY <1>1, <1>2, <1>14, <1>15
<1>17. Fine(e, PhaseAt(r)) /\ e.schema = SchemaAt(r)
  BY <1>14 DEF p, t
<1>18. Good(e, r)
  BY <1>16, <1>17 DEF Good
<1> QED
  BY <1>18 DEF e, steps

LEMMA FallsWell ==
  ASSUME NEW r \in 1 .. 16, r # 11, NEW d, Good(d, r)
  PROVE  Good(Execution(d, DowngradeSteps[r])[Len(DowngradeSteps[r])], r - 1)
<1> DEFINE p == PhaseAt(r)
           s == SchemaAt(r)
           t == SchemaAt(r - 1)
           steps == DowngradeSteps[r]
           e == Execution(d, steps)[Len(steps)]
<1>1. /\ r - 1 \in 0 .. 16 /\ r \in 0 .. 16 /\ PhaseAt(r - 1) = p
      /\ (r >= 11 => r - 1 >= 11) /\ (r - 1 >= 10 => r >= 10)
  BY DEF PhaseAt
<1>2. Fine(d, p) /\ d.schema = s /\ d.width \in {32, 64} /\ (r >= 10 => d.width = 64)
  BY DEF Good
<1>3. Falls(steps, s, t)
  BY RevisionsWalk DEF Walks
<1>4. PICK S, L : Sinks(S, L, steps, s, t)
  BY <1>3 DEF Falls, Sinks
<1>5. Guarded(s, p) /\ Versioned(t, p)
  <2>1. CASE r <= 10
    BY <1>1, <2>1, GuardsAt DEF PhaseAt, Versioned
  <2>2. CASE r >= 11
    BY <1>1, <2>2, GuardsAt DEF PhaseAt
  <2> QED
    BY <2>1, <2>2
<1> HIDE DEF s, t, p, steps, e
<1>6. L \in Nat
  BY <1>4 DEF Sinks
<1>7. \A m \in 1 .. L + 1 : t \subseteq S[m] /\ S[m] \subseteq s
  BY <1>4, SinksWithin
<1>8. \A m \in 1 .. L + 1 : Guarded(S[m], p) /\ Versioned(S[m], p)
  BY <1>5, <1>7, GuardedWithin
<1>9. Descends(d, p, S, L, steps, t)
  BY <1>2, <1>4, <1>8 DEF Descends
<1>10. Arrived(d, p, t, Execution(d, steps)[Len(steps)])
  BY <1>9, Descent
<1>11. Fine(e, p) /\ e.schema = t /\ e.width \in {d.width, 64} /\ (d.width = 64 => e.width = 64)
  BY <1>10 DEF Arrived, e
<1>12. e.width \in {32, 64} /\ (r - 1 >= 10 => e.width = 64)
  BY <1>1, <1>2, <1>11
<1>13. Fine(e, PhaseAt(r - 1)) /\ e.schema = SchemaAt(r - 1)
  BY <1>1, <1>11 DEF t
<1>14. Good(e, r - 1)
  BY <1>12, <1>13 DEF Good
<1> QED
  BY <1>14 DEF e, steps

-----------------------------------------------------------------------------
\* The schemas that revision 0011 passes through.  On the way up, s1 to s3 have the
\* active version of a document and the table of versions, t1 to t4 what refers to
\* it; on the way down, t3, u1 and u2 have lost the old constraint.
Growing(s, op, t) == Turns(s, op, t) /\ Grows(op)

Shrinking(s, op, t) == Turns(s, op, t) /\ Shrinks(op)

Stages(s1, s2, s3, t1, t2, t3, t4, u1, u2) ==
  /\ Growing(SchemaAt(10), Upgrade_0011[1], s1) /\ Growing(s1, Upgrade_0011[2], s2)
  /\ Growing(s2, Upgrade_0011[3], s3)
  /\ Growing(s3, Upgrade_0011[6], t1) /\ Growing(t1, Upgrade_0011[7], t2)
  /\ Shrinking(t2, Upgrade_0011[8], t3)
  /\ Growing(t3, Upgrade_0011[9], t4) /\ Growing(t4, Upgrade_0011[10], SchemaAt(11))
  /\ Shrinking(SchemaAt(11), Downgrade_0011[2], t4) /\ Shrinking(t4, Downgrade_0011[3], t3)
  /\ Shrinking(t3, Downgrade_0011[4], u1) /\ Shrinking(u1, Downgrade_0011[5], u2)
  /\ Growing(u2, Downgrade_0011[6], s3)
  /\ Shrinking(s3, Downgrade_0011[7], s2) /\ Shrinking(s2, Downgrade_0011[8], s1)
  /\ Shrinking(s1, Downgrade_0011[9], SchemaAt(10))
  /\ \A s \in {s1, s2, s3, u2} : Guarded(s, "old")
  /\ \A s \in {t3, t4, u1} : Versioned(s, "both")
  /\ Active \in s3 /\ Versions \in s3 /\ Version \notin s3 /\ Status \notin s3

LEMMA ObjectTurns ==
  ASSUME NEW s, NEW t, NEW o, <<t, "table", t>> \in s, o \notin s, NEW u, u = s \cup {o}
  PROVE  Growing(s, Adds(t, {o}, {}), u) /\ Shrinking(u, Drops(t, {o}), s)
<1>1. {o} \cap s = {} /\ {} \subseteq s
  OBVIOUS
<1> QED
  BY <1>1, ObjectsTurn DEF Growing, Shrinking

LEMMA VersionSteps ==
  /\ Upgrade_0011[1] = Adds("documents", {<<"documents", "column", "active_chunk_version">>}, {})
  /\ Upgrade_0011[2]
       = Adds("documents", {<<"documents", "constraint", "ck_documents_active_chunk_version">>}, {})
  /\ Upgrade_0011[4] = Statement("insert_versions")
  /\ Upgrade_0011[5] = Statement("activate_version_one")
  /\ Upgrade_0011[6]
       = Adds("document_chunks", {<<"document_chunks", "column", "chunk_version">>}, {})
  /\ Upgrade_0011[7]
       = Adds("document_chunks",
              {<<"document_chunks", "constraint", "ck_document_chunks_version">>}, {})
  /\ Upgrade_0011[8] = Drops("document_chunks", {OldUnique})
  /\ Upgrade_0011[9]
       = Adds("document_chunks",
              {<<"document_chunks", "constraint", "uq_document_chunks_document_version_index">>}, {})
  /\ Upgrade_0011[10]
       = Adds("document_chunks",
              {<<"document_chunks", "constraint", "fk_document_chunks_version">>,
               <<"document_chunks", "references", "document_chunk_versions">>},
              {<<"document_chunk_versions", "table", "document_chunk_versions">>})
  /\ Downgrade_0011[1] = Statement("delete_inactive_chunks")
  /\ Downgrade_0011[2]
       = Drops("document_chunks",
              {<<"document_chunks", "constraint", "fk_document_chunks_version">>,
               <<"document_chunks", "references", "document_chunk_versions">>})
  /\ Downgrade_0011[3]
       = Drops("document_chunks",
              {<<"document_chunks", "constraint", "uq_document_chunks_document_version_index">>})
  /\ Downgrade_0011[4]
       = Drops("document_chunks",
              {<<"document_chunks", "constraint", "ck_document_chunks_version">>})
  /\ Downgrade_0011[5]
       = Drops("document_chunks", {<<"document_chunks", "column", "chunk_version">>})
  /\ Downgrade_0011[6] = Adds("document_chunks", {OldUnique}, {})
  /\ Downgrade_0011[7] = DropTable("document_chunk_versions")
  /\ Downgrade_0011[8]
       = Drops("documents", {<<"documents", "constraint", "ck_documents_active_chunk_version">>})
  /\ Downgrade_0011[9]
       = Drops("documents", {<<"documents", "column", "active_chunk_version">>})
<1>1. /\ Upgrade_0011[1] = AddColumn("documents", "active_chunk_version")
      /\ Upgrade_0011[2] = AddConstraint("documents", "ck_documents_active_chunk_version")
      /\ Upgrade_0011[4] = Backfill[1] /\ Upgrade_0011[5] = Backfill[2]
      /\ Upgrade_0011[6] = AddColumn("document_chunks", "chunk_version")
      /\ Upgrade_0011[7] = AddConstraint("document_chunks", "ck_document_chunks_version")
      /\ Upgrade_0011[8] = DropConstraint("document_chunks", "uq_document_chunks_document_index")
      /\ Upgrade_0011[9]
           = AddConstraint("document_chunks", "uq_document_chunks_document_version_index")
      /\ Upgrade_0011[10]
           = AddForeignKey("document_chunks", "fk_document_chunks_version",
                           "document_chunk_versions")
  BY DEF Upgrade_0011
<1>2. /\ Downgrade_0011[1] = DiscardHistory
      /\ Downgrade_0011[2]
           = DropForeignKey("document_chunks", "fk_document_chunks_version",
                            "document_chunk_versions")
      /\ Downgrade_0011[3]
           = DropConstraint("document_chunks", "uq_document_chunks_document_version_index")
      /\ Downgrade_0011[4] = DropConstraint("document_chunks", "ck_document_chunks_version")
      /\ Downgrade_0011[5] = DropColumn("document_chunks", "chunk_version")
      /\ Downgrade_0011[6] = AddConstraint("document_chunks", "uq_document_chunks_document_index")
      /\ Downgrade_0011[7] = DropTable("document_chunk_versions")
      /\ Downgrade_0011[8] = DropConstraint("documents", "ck_documents_active_chunk_version")
      /\ Downgrade_0011[9] = DropColumn("documents", "active_chunk_version")
  BY DEF Downgrade_0011
<1>3. /\ Upgrade_0011[4] = Statement("insert_versions")
      /\ Upgrade_0011[5] = Statement("activate_version_one")
      /\ Downgrade_0011[1] = Statement("delete_inactive_chunks")
  BY <1>1, <1>2 DEF Backfill, DiscardHistory
<1> QED
  BY <1>1, <1>2, <1>3
     DEF AddColumn, AddConstraint, DropConstraint, DropColumn, AddForeignKey, DropForeignKey,
         OldUnique

LEMMA VersionStages ==
  \E s1, s2, s3, t1, t2, t3, t4, u1, u2 : Stages(s1, s2, s3, t1, t2, t3, t4, u1, u2)
<1> DEFINE s0 == SchemaAt(10)
           a == <<"documents", "column", "active_chunk_version">>
           k == <<"documents", "constraint", "ck_documents_active_chunk_version">>
           T == Fresh("document_chunk_versions")
           v == <<"document_chunks", "column", "chunk_version">>
           c == <<"document_chunks", "constraint", "ck_document_chunks_version">>
           q == <<"document_chunks", "constraint", "uq_document_chunks_document_version_index">>
           f == <<"document_chunks", "constraint", "fk_document_chunks_version">>
           g == <<"document_chunks", "references", "document_chunk_versions">>
           ck == <<"document_chunks", "table", "document_chunks">>
           dk == <<"documents", "table", "documents">>
           vk == <<"document_chunk_versions", "table", "document_chunk_versions">>
           st == <<"document_chunk_versions", "column", "status">>
           o == OldUnique
<1>1. New(11) = {a, k, v, c, q, f, g} \cup T
  BY NewObjects DEF VersionObjects
<1>2. /\ New(11) \cap s0 = {} /\ o \in s0
      /\ SchemaAt(11) = (s0 \ {o}) \cup New(11)
  <2>1. 11 \in 1 .. 16 /\ 11 - 1 = 10 /\ 10 \in 3 .. 10
    OBVIOUS
  <2>2. New(11) \cap SchemaAt(11 - 1) = {}
    BY <2>1, SchemaGrows
  <2> QED
    BY <2>1, <2>2, SchemaGrows
<1>3. /\ a # k
      /\ v # c /\ v # q /\ v # f /\ v # g /\ c # q /\ c # f /\ c # g /\ q # f /\ q # g /\ f # g
      /\ \A x \in {a, k} : \A y \in {v, c, q, f, g} : x # y
      /\ \A x \in {a, k, v, c, q, f, g, dk, ck} : x[1] # "document_chunk_versions"
      /\ o \notin {a, k, v, c, q, f, g} /\ o[1] # "document_chunk_versions"
      /\ o \notin {ck, dk}
  BY DEF OldUnique
<1>4. \A x \in T : x[1] = "document_chunk_versions"
  BY DEF Fresh
<1>5. /\ Tables(s0, TablesAt(10))
      /\ "documents" \in TablesAt(10) /\ "document_chunks" \in TablesAt(10)
      /\ "document_chunk_versions" \notin TablesAt(10)
  BY TablesAtRevision, TablesThere
<1>6. ck \in s0 /\ dk \in s0
  BY <1>5 DEF Tables
<1>7. PICK cs, ks :
        /\ T = Table("document_chunk_versions", cs, ks, {}, {"documents"})
        /\ Upgrade_0011[3] = CreateTable("document_chunk_versions", cs, ks, {"documents"})
  BY VersionsMade
<1>8. vk \in T
  BY <1>7, TableIs
<1>9. st \notin T /\ st \notin s0
  <2>1. st \in LaterObjects
    BY DEF LaterObjects, StatusObjects
  <2>2. st[1] = "document_chunk_versions"
    OBVIOUS
  <2> HIDE DEF st
  <2>3. st \notin s0
    BY <1>5, <2>2 DEF Tables
  <2> QED
    BY <2>1, <2>3 DEF Fresh
<1>10. /\ v = Version /\ a = Active /\ vk = Versions /\ ck = Chunks /\ st = Status
       /\ VersionGuards = {f, <<"document_chunks", "index", "fk_document_chunks_version">>}
  BY DEF Version, Active, Versions, Chunks, Status, VersionGuards
<1>11. st \notin {a, k} /\ a[1] = "documents" /\ k[1] = "documents"
  OBVIOUS
<1>12. /\ Upgrade_0011[1] = Adds("documents", {a}, {})
       /\ Upgrade_0011[2] = Adds("documents", {k}, {})
       /\ Upgrade_0011[6] = Adds("document_chunks", {v}, {})
       /\ Upgrade_0011[7] = Adds("document_chunks", {c}, {})
       /\ Upgrade_0011[8] = Drops("document_chunks", {o})
       /\ Upgrade_0011[9] = Adds("document_chunks", {q}, {})
       /\ Upgrade_0011[10] = Adds("document_chunks", {f, g}, {vk})
       /\ Downgrade_0011[2] = Drops("document_chunks", {f, g})
       /\ Downgrade_0011[3] = Drops("document_chunks", {q})
       /\ Downgrade_0011[4] = Drops("document_chunks", {c})
       /\ Downgrade_0011[5] = Drops("document_chunks", {v})
       /\ Downgrade_0011[6] = Adds("document_chunks", {o}, {})
       /\ Downgrade_0011[7] = DropTable("document_chunk_versions")
       /\ Downgrade_0011[8] = Drops("documents", {k})
       /\ Downgrade_0011[9] = Drops("documents", {a})
  BY VersionSteps
<1>13. <<"document_chunks", "index", "fk_document_chunks_version">> \notin s0 \cup T \cup {a, k}
  <2>1. s0 \cup T \subseteq Declared
    BY DEF SchemaAt, Fresh
  <2> QED
    BY <2>1, GuardNames
<1> HIDE DEF s0, T, a, k, v, c, q, f, g, ck, dk, vk, st, o
<1>14. /\ {a, k, v, c, q, f, g} \cap T = {} /\ {ck, dk, o} \cap T = {}
  BY <1>3, <1>4
<1>15. {a, k, v, c, q, f, g} \cap s0 = {} /\ T \cap s0 = {}
  BY <1>1, <1>2
<1> DEFINE s1 == s0 \cup {a}
           s2 == s1 \cup {k}
           s3 == s2 \cup T
           t1 == s3 \cup {v}
           t2 == t1 \cup {c}
           t3 == t2 \ {o}
           t4 == t3 \cup {q}
           t5 == t4 \cup {f, g}
           u1 == t1 \ {o}
           u2 == s3 \ {o}
<1>16. Growing(s0, Upgrade_0011[1], s1) /\ Shrinking(s1, Downgrade_0011[9], s0)
  BY <1>6, <1>12, <1>15, ObjectTurns DEF dk
<1>17. Growing(s1, Upgrade_0011[2], s2) /\ Shrinking(s2, Downgrade_0011[8], s1)
  <2>1. dk \in s1 /\ k \notin s1
    BY <1>3, <1>6, <1>15
  <2> HIDE DEF s1
  <2> QED
    BY <1>12, <2>1, ObjectTurns DEF dk
<1>18. Growing(s2, Upgrade_0011[3], s3) /\ Shrinking(s3, Downgrade_0011[7], s2)
  <2>1. Tables(s2, TablesAt(10))
    <3>1. \A x \in {a, k} : x[1] \in TablesAt(10) /\ x[2] # "references"
      BY <1>5 DEF a, k
    <3> QED
      BY <1>5, <3>1 DEF Tables
  <2>2. {"documents"} \subseteq TablesAt(10)
    BY <1>5
  <2> HIDE DEF s2
  <2>3. LET u == s2 \cup Table("document_chunk_versions", cs, ks, {}, {"documents"})
        IN  /\ Turns(s2, CreateTable("document_chunk_versions", cs, ks, {"documents"}), u)
            /\ Turns(u, DropTable("document_chunk_versions"), s2)
            /\ Grows(CreateTable("document_chunk_versions", cs, ks, {"documents"}))
            /\ Shrinks(DropTable("document_chunk_versions"))
    BY <1>5, <2>1, <2>2, TableTurns
  <2> QED
    BY <1>7, <1>12, <2>3 DEF Growing, Shrinking
<1>19. Growing(s3, Upgrade_0011[6], t1)
  <2>1. ck \in s3 /\ v \notin s3
    BY <1>3, <1>6, <1>14, <1>15
  <2> HIDE DEF s3
  <2> QED
    BY <1>12, <2>1, ObjectTurns DEF ck
<1>20. Growing(t1, Upgrade_0011[7], t2)
  <2>1. ck \in t1 /\ c \notin t1
    BY <1>3, <1>6, <1>14, <1>15
  <2> HIDE DEF t1
  <2> QED
    BY <1>12, <2>1, ObjectTurns DEF ck
<1>21. Shrinking(t2, Upgrade_0011[8], t3)
  <2>1. ck \in t3 /\ o \notin t3 /\ t2 = t3 \cup {o}
    BY <1>2, <1>3, <1>6
  <2> HIDE DEF t3, t2
  <2> QED
    BY <1>12, <2>1, ObjectTurns DEF ck
<1>22. Growing(t3, Upgrade_0011[9], t4) /\ Shrinking(t4, Downgrade_0011[3], t3)
  <2>1. ck \in t3 /\ q \notin t3
    BY <1>3, <1>6, <1>14, <1>15
  <2> HIDE DEF t3
  <2> QED
    BY <1>12, <2>1, ObjectTurns DEF ck
<1>23. Growing(t4, Upgrade_0011[10], t5) /\ Shrinking(t5, Downgrade_0011[2], t4)
  <2>1. ck \in t4 /\ {f, g} \cap t4 = {} /\ {vk} \subseteq t4
    BY <1>3, <1>6, <1>8, <1>14, <1>15
  <2> DEFINE fg == {f, g}
             needs == {vk}
  <2>2. t5 = t4 \cup fg
    OBVIOUS
  <2>3. /\ Upgrade_0011[10] = Adds("document_chunks", fg, needs)
        /\ Downgrade_0011[2] = Drops("document_chunks", fg)
    BY <1>12
  <2>4. <<"document_chunks", "table", "document_chunks">> \in t4
    BY <2>1 DEF ck
  <2>5. fg \cap t4 = {} /\ needs \subseteq t4
    BY <2>1
  <2> HIDE DEF t4, t5, fg, needs
  <2>6. /\ Turns(t4, Adds("document_chunks", fg, needs), t4 \cup fg)
        /\ Turns(t4 \cup fg, Drops("document_chunks", fg), t4)
        /\ Grows(Adds("document_chunks", fg, needs)) /\ Shrinks(Drops("document_chunks", fg))
    BY <2>4, <2>5, ObjectsTurn
  <2> QED
    BY <2>2, <2>3, <2>6 DEF Growing, Shrinking
<1>24. Shrinking(t3, Downgrade_0011[4], u1)
  <2>1. ck \in u1 /\ c \notin u1 /\ t3 = u1 \cup {c}
    BY <1>3, <1>6, <1>14, <1>15
  <2> HIDE DEF t3, u1
  <2> QED
    BY <1>12, <2>1, ObjectTurns DEF ck
<1>25. Shrinking(u1, Downgrade_0011[5], u2)
  <2>1. ck \in u2 /\ v \notin u2 /\ u1 = u2 \cup {v}
    BY <1>3, <1>6, <1>14, <1>15
  <2> HIDE DEF u1, u2
  <2> QED
    BY <1>12, <2>1, ObjectTurns DEF ck
<1>26. Growing(u2, Downgrade_0011[6], s3)
  <2>1. ck \in u2 /\ o \notin u2 /\ s3 = u2 \cup {o}
    BY <1>2, <1>3, <1>6
  <2> HIDE DEF s3, u2
  <2> QED
    BY <1>12, <2>1, ObjectTurns DEF ck
<1>27. t5 = SchemaAt(11)
  BY <1>1, <1>2, <1>3, <1>14
<1>28. \A s \in {s1, s2, s3, u2} : Guarded(s, "old")
  <2>1. s1 \subseteq s3 /\ s2 \subseteq s3 /\ u2 \subseteq s3
    OBVIOUS
  <2>2. f \notin s3
    BY <1>3, <1>14, <1>15
  <2>3. <<"document_chunks", "index", "fk_document_chunks_version">> \notin s3
    BY <1>13
  <2> HIDE DEF s1, s2, s3, u2
  <2> QED
    BY <1>10, <2>1, <2>2, <2>3 DEF Guarded
<1>29. \A s \in {t3, t4, u1} : Versioned(s, "both")
  <2>1. ck \in u1 /\ v \in u1 /\ vk \in u1
    BY <1>3, <1>6, <1>8, <1>14
  <2>2. u1 \subseteq t3 /\ t3 \subseteq t4
    OBVIOUS
  <2> HIDE DEF t3, t4, u1
  <2> QED
    BY <1>10, <2>1, <2>2 DEF Versioned
<1>30. Active \in s3 /\ Versions \in s3 /\ Version \notin s3 /\ Status \notin s3
  <2>1. a \in s3 /\ vk \in s3 /\ v \notin s3 /\ st \notin s3
    BY <1>3, <1>8, <1>9, <1>11, <1>14, <1>15
  <2> QED
    BY <1>10, <2>1
<1> HIDE DEF s1, s2, s3, t1, t2, t3, t4, t5, u1, u2
<1>31. Stages(s1, s2, s3, t1, t2, t3, t4, u1, u2)
  BY <1>16, <1>17, <1>18, <1>19, <1>20, <1>21, <1>22, <1>23, <1>24, <1>25, <1>26, <1>27,
     <1>28, <1>29, <1>30 DEF Stages, s0
<1> QED
  BY <1>31

\* The three statements on rows of revision 0011.
LEMMA HoldingWidth ==
  ASSUME NEW d, IsDb(d), NEW chunks, NEW embedded, NEW versions, NEW active
  PROVE  Holding(d, chunks, embedded, versions, active).width = d.width
<1> DEFINE e == Holding(d, chunks, embedded, versions, active)
<1>1. e = [d EXCEPT !.chunks = chunks, !.embedded = embedded, !.versions = versions,
                   !.active = active]
  BY DEF Holding
<1> HIDE DEF e
<1>2. e = [schema |-> d.schema, width |-> d.width, chunks |-> chunks, embedded |-> embedded,
           versions |-> versions, active |-> active, ok |-> d.ok]
  BY <1>1 DEF IsDb
<1>3. e.width = d.width
  BY <1>2
<1> QED
  BY <1>3 DEF e

LEMMA StatementExecutes ==
  ASSUME NEW d, d.ok = TRUE, NEW s, s # "drop_table",
         RowsSatisfy(Settled(Effect(d, Statement(s))))
  PROVE  Execute(d, Statement(s)) = Settled(Effect(d, Statement(s)))
<1> DEFINE op == Statement(s)
<1>1. op.needs = {} /\ op.drops = {} /\ op.adds = {} /\ op.op = s
  BY DEF Statement
<1> HIDE DEF op
<1>2. Allowed(d, op)
  BY <1>1 DEF Allowed
<1>3. RowsSatisfy(Settled(Effect(d, op)))
  BY DEF op
<1>4. Execute(d, op) = Settled(Effect(d, op))
  BY <1>2, <1>3, AllowedExecutes
<1> QED
  BY <1>4 DEF op

\* What a statement leaves: rows in order, before and after versions.
Stated(d, e) == Fine(e, "both") /\ e.schema = d.schema /\ e.width = d.width

LEMMA BothGuarded == \A s : Guarded(s, "both")
  BY DEF Guarded

Unversioned(d) ==
  /\ Fine(d, "old") /\ d.versions = {}
  /\ Versions \in d.schema /\ Version \notin d.schema /\ Status \notin d.schema

LEMMA InsertStep ==
  ASSUME NEW d, Unversioned(d)
  PROVE  Stated(d, Execute(d, Statement("insert_versions")))
<1> DEFINE op == Statement("insert_versions")
           one == VersionOneOf(d.chunks)
           f == Effect(d, op)
<1>1. /\ IsDb(d) /\ d.ok = TRUE /\ Rows(d) /\ RowsIn(d, "old") /\ d.versions = {}
      /\ Versions \in d.schema /\ Version \notin d.schema
  BY DEF Unversioned, Fine
<1>2. f = Holding(d, d.chunks, d.embedded, one, d.active)
  <2>1. op.op = "insert_versions"
    BY StatementIs
  <2>2. f = [d EXCEPT !.versions = d.versions \cup one]
    BY <2>1 DEF Effect, VersionOneOf
  <2>3. d.versions \cup one = one
    BY <1>1
  <2> HIDE DEF one, f, op
  <2> QED
    BY <1>1, <2>2, <2>3 DEF Holding, IsDb
<1>3. \A v \in one : \E c \in d.chunks : v = [doc |-> c.doc, version |-> 1, status |-> "ready"]
  BY DEF VersionOneOf
<1>4. \A c \in d.chunks : [doc |-> c.doc, version |-> 1, status |-> "ready"] \in one
  BY DEF VersionOneOf
<1>5. \A c \in d.chunks : c.doc \in Docs /\ c.version = 1
  BY <1>1 DEF Rows, ChunkRow
<1>6. one \subseteq VersionRow /\ \A v \in one : v.version = 1 /\ v.status = "ready"
  BY <1>3, <1>5 DEF VersionRow
<1>7. IsFiniteSet(one)
  <2> DEFINE first == [c \in d.chunks |-> [doc |-> c.doc, version |-> 1, status |-> "ready"]]
  <2>1. one = {first[c] : c \in d.chunks}
    BY DEF VersionOneOf
  <2> HIDE DEF first, one
  <2> QED
    BY <1>1, <2>1, ImageIsFinite DEF Rows
<1> HIDE DEF one, f
<1>8. /\ IsDb(f) /\ f.schema = d.schema /\ f.ok = d.ok /\ f.chunks = d.chunks
      /\ f.embedded = d.embedded /\ f.versions = one /\ f.active = d.active
  BY <1>1, <1>2, HoldingIs
<1>9. f.width = d.width
  BY <1>1, <1>2, HoldingWidth
<1>10. Rows(f)
  BY <1>1, <1>6, <1>7, <1>8 DEF Rows
<1>11. OnePerIndex(f) /\ OnePerVersion(f)
  BY <1>1, <1>8 DEF RowsIn, OnePerIndex, OnePerVersion
<1>12. Referred(f)
  <2> SUFFICES ASSUME NEW c \in d.chunks
               PROVE  \E v \in one : v.doc = c.doc /\ v.version = c.version
    BY <1>8 DEF Referred
  <2> DEFINE v == [doc |-> c.doc, version |-> 1, status |-> "ready"]
  <2>1. v \in one /\ v.doc = c.doc /\ v.version = c.version
    BY <1>4, <1>5
  <2> QED
    BY <2>1
<1>13. OneProcessing(f)
  BY <1>6, <1>8 DEF OneProcessing
<1>14. Distinct(one)
  <2> SUFFICES ASSUME NEW v \in one, NEW w \in one, v.doc = w.doc PROVE v = w
    BY DEF Distinct
  <2>1. PICK b \in d.chunks : v = [doc |-> b.doc, version |-> 1, status |-> "ready"]
    BY <1>3
  <2>2. PICK c \in d.chunks : w = [doc |-> c.doc, version |-> 1, status |-> "ready"]
    BY <1>3
  <2> QED
    BY <2>1, <2>2
<1>15. Counted(one)
  <2> SUFFICES ASSUME NEW v \in one
               PROVE  v.version <= Cardinality({w \in one : w.doc = v.doc})
    BY DEF Counted
  <2> DEFINE S == {w \in one : w.doc = v.doc}
  <2>1. S \in SUBSET one /\ v \in S /\ v.version = 1
    BY <1>6
  <2> HIDE DEF S
  <2>2. IsFiniteSet(S) /\ S # {}
    BY <1>7, <2>1, FS_Subset
  <2>3. Cardinality(S) \in Nat /\ Cardinality(S) # 0
    BY <2>2, FS_CardinalityType, FS_EmptySet
  <2>4. 1 <= Cardinality(S)
    BY <2>3
  <2> QED
    BY <2>1, <2>4 DEF S
<1>16. RowsIn(f, "both")
  BY <1>8, <1>11, <1>12, <1>13, <1>14, <1>15 DEF RowsIn
<1>17. Settled(f) = f
  BY <1>8, <1>10, SettledStays
<1>18. RowsSatisfy(f)
  BY <1>16, BothGuarded, RowsAreSatisfied
<1>19. RowsSatisfy(Settled(Effect(d, Statement("insert_versions"))))
  BY <1>17, <1>18 DEF f, op
<1>20. Execute(d, Statement("insert_versions")) = f
  BY <1>1, <1>17, <1>19, StatementExecutes DEF f, op
<1> QED
  BY <1>1, <1>8, <1>9, <1>10, <1>16, <1>20 DEF Stated, Fine

LEMMA ActivateStep ==
  ASSUME NEW d, Fine(d, "both"), Active \in d.schema
  PROVE  Stated(d, Execute(d, Statement("activate_version_one")))
<1> DEFINE op == Statement("activate_version_one")
           active == Activated(d)
           f == Effect(d, op)
<1>1. IsDb(d) /\ d.ok = TRUE /\ Rows(d) /\ RowsIn(d, "both") /\ Active \in d.schema
  BY DEF Fine
<1>2. f = Holding(d, d.chunks, d.embedded, d.versions, active)
  <2>1. op.op = "activate_version_one"
    BY StatementIs
  <2>2. f = [d EXCEPT !.active = active]
    BY <2>1 DEF Effect, Activated
  <2> HIDE DEF active, f, op
  <2> QED
    BY <1>1, <2>2 DEF Holding, IsDb
<1>3. active \in [Docs -> Nat]
  BY <1>1 DEF Rows, Activated
<1> HIDE DEF active, f
<1>4. /\ IsDb(f) /\ f.schema = d.schema /\ f.ok = d.ok /\ f.chunks = d.chunks
      /\ f.embedded = d.embedded /\ f.versions = d.versions /\ f.active = active
  BY <1>1, <1>2, HoldingIs
<1>5. f.width = d.width
  BY <1>1, <1>2, HoldingWidth
<1>6. Rows(f)
  BY <1>1, <1>3, <1>4 DEF Rows
<1>7. RowsIn(f, "both")
  BY <1>1, <1>4 DEF RowsIn, OnePerIndex, OnePerVersion, Referred, OneProcessing
<1>8. Settled(f) = f
  BY <1>4, <1>6, SettledStays
<1>9. RowsSatisfy(f)
  BY <1>7, BothGuarded, RowsAreSatisfied
<1>10. RowsSatisfy(Settled(Effect(d, Statement("activate_version_one"))))
  BY <1>8, <1>9 DEF f, op
<1>11. Execute(d, Statement("activate_version_one")) = f
  BY <1>1, <1>8, <1>10, StatementExecutes DEF f, op
<1> QED
  BY <1>1, <1>4, <1>5, <1>6, <1>7, <1>11 DEF Stated, Fine

\* Of each document one set of chunks is left, that of one version.
LEMMA DiscardStep ==
  ASSUME NEW d, Fine(d, "new"), Versioned(d.schema, "new")
  PROVE  Stated(d, Execute(d, Statement("delete_inactive_chunks")))
<1> DEFINE op == Statement("delete_inactive_chunks")
           chunks == {c \in d.chunks : c.version = d.active[c.doc]}
           f == Effect(d, op)
           e == Settled(f)
<1>1. /\ IsDb(d) /\ d.ok = TRUE /\ Rows(d) /\ RowsIn(d, "new")
      /\ Chunks \in d.schema /\ Version \in d.schema /\ Versions \in d.schema
  BY DEF Fine, Versioned
<1>2. f = Holding(d, chunks, d.embedded, d.versions, d.active)
  <2>1. op.op = "delete_inactive_chunks"
    BY StatementIs
  <2>2. f = [d EXCEPT !.chunks = chunks]
    BY <2>1 DEF Effect
  <2> HIDE DEF chunks, f, op
  <2> QED
    BY <1>1, <2>2 DEF Holding, IsDb
<1>3. chunks \subseteq d.chunks /\ \A c \in chunks : c.version = d.active[c.doc]
  OBVIOUS
<1>4. chunks \subseteq ChunkRow /\ IsFiniteSet(chunks)
  <2> HIDE DEF chunks
  <2>1. chunks \in SUBSET d.chunks /\ IsFiniteSet(d.chunks) /\ d.chunks \subseteq ChunkRow
    BY <1>1, <1>3 DEF Rows
  <2>2. IsFiniteSet(chunks)
    BY <2>1, FS_Subset
  <2> QED
    BY <2>1, <2>2
<1> HIDE DEF chunks, f, e
<1>5. /\ IsDb(f) /\ f.schema = d.schema /\ f.ok = d.ok /\ f.chunks = chunks
      /\ f.embedded = d.embedded /\ f.versions = d.versions /\ f.active = d.active
  BY <1>1, <1>2, HoldingIs
<1>6. f.width = d.width
  BY <1>1, <1>2, HoldingWidth
<1>7. Rows(e)
  BY <1>1, <1>4, <1>5, SettledFits DEF Rows, e
<1>8. /\ IsDb(e) /\ e.schema = f.schema /\ e.width = f.width /\ e.ok = f.ok
      /\ e.chunks = IF Chunks \notin f.schema THEN {}
                    ELSE IF Version \in f.schema THEN f.chunks
                    ELSE {[c EXCEPT !.version = 1] : c \in f.chunks}
      /\ e.versions = IF Versions \notin f.schema THEN {}
                      ELSE IF Status \in f.schema THEN f.versions
                      ELSE {[v EXCEPT !.status = "ready"] : v \in f.versions}
  BY <1>5, SettledFields DEF e
<1>9. e.chunks = chunks
  BY <1>1, <1>5, <1>8
<1>10. e.versions = d.versions
  <2>1. CASE Status \in d.schema
    BY <1>1, <1>5, <1>8, <2>1
  <2>2. CASE Status \notin d.schema
    <3>1. e.versions = {[v EXCEPT !.status = "ready"] : v \in d.versions}
      BY <1>1, <1>5, <1>8, <2>2
    <3>2. \A v \in d.versions : [v EXCEPT !.status = "ready"] = v
      BY <1>1, <2>2 DEF Rows, VersionRow
    <3> QED
      BY <3>1, <3>2
  <2> QED
    BY <2>1, <2>2
<1>11. OnePerIndex(e)
  BY <1>1, <1>3, <1>9 DEF RowsIn, OnePerIndex, OnePerVersion
<1>12. OnePerVersion(e) /\ Referred(e)
  BY <1>1, <1>3, <1>9, <1>10 DEF RowsIn, OnePerVersion, Referred
<1>13. OneProcessing(e)
  BY <1>1, <1>10 DEF RowsIn, OneProcessing
<1>14. Distinct(e.versions) /\ Counted(e.versions)
  BY <1>1, <1>10 DEF RowsIn
<1>15. RowsIn(e, "both")
  BY <1>11, <1>12, <1>13, <1>14 DEF RowsIn
<1>16. RowsSatisfy(e)
  BY <1>15, BothGuarded, RowsAreSatisfied
<1>17. RowsSatisfy(Settled(Effect(d, Statement("delete_inactive_chunks"))))
  BY <1>16 DEF e, f, op
<1>18. Execute(d, Statement("delete_inactive_chunks")) = e
  BY <1>1, <1>17, StatementExecutes DEF e, f, op
<1> QED
  BY <1>1, <1>5, <1>6, <1>7, <1>8, <1>15, <1>18 DEF Stated, Fine

\* Revision 0011, up and down.
Held(d, p, s) == Fine(d, p) /\ d.schema = s /\ d.width = 64

Grew(d, p, s, op, t) == Held(d, p, s) /\ Growing(s, op, t) /\ Named(op) /\ Guarded(t, p)

Shrank(d, p, s, op, t) ==
  Held(d, p, s) /\ Shrinking(s, op, t) /\ Guarded(t, p) /\ Versioned(t, p)

LEMMA HeldGrown ==
  ASSUME NEW d, NEW p, NEW s, NEW op, NEW t, Grew(d, p, s, op, t)
  PROVE  Held(Execute(d, op), p, t) /\ SameRows(d, Execute(d, op))
<1>1. /\ Fine(d, p) /\ d.schema = s /\ d.width = 64 /\ Turns(d.schema, op, t) /\ Grows(op)
      /\ Named(op) /\ Guarded(t, p)
  BY DEF Grew, Held, Growing
<1>2. Grown(d, op, t, p, Execute(d, op))
  BY <1>1, GrowStep
<1> QED
  BY <1>1, <1>2 DEF Grown, Held

LEMMA HeldShrunk ==
  ASSUME NEW d, NEW p, NEW s, NEW op, NEW t, Shrank(d, p, s, op, t)
  PROVE  Held(Execute(d, op), p, t)
<1>1. /\ Fine(d, p) /\ d.schema = s /\ d.width = 64 /\ Turns(d.schema, op, t) /\ Shrinks(op)
      /\ Versioned(t, p) /\ Guarded(t, p)
  BY DEF Shrank, Held, Shrinking
<1>2. Shrunk(d, t, p, Execute(d, op))
  BY <1>1, ShrinkStep
<1> QED
  BY <1>1, <1>2 DEF Shrunk, Held

LEMMA StatedHeld ==
  ASSUME NEW d, NEW p, NEW s, Held(d, p, s), NEW e, Stated(d, e) PROVE Held(e, "both", s)
  BY DEF Held, Stated

LEMMA OldVersioned == \A s : Versioned(s, "old")
  BY DEF Versioned

\* Rows in order under both rules are in order under either.
LEMMA EitherHeld ==
  ASSUME NEW d, NEW s, Held(d, "both", s) PROVE Held(d, "old", s) /\ Held(d, "new", s)
  BY DEF Held, Fine, RowsIn

LEMMA VersionsNamed ==
  /\ \A n \in 1 .. 10 : Named(Upgrade_0011[n])
  /\ Named(Downgrade_0011[6])
<1>1. UpgradeSteps[11] = Upgrade_0011 /\ DowngradeSteps[11] = Downgrade_0011 /\ 11 \in 1 .. 16
  BY DEF UpgradeSteps, DowngradeSteps
<1>2. Listed(Upgrade_0011) /\ Listed(Downgrade_0011)
  BY <1>1, RevisionsListed
<1>3. Len(Upgrade_0011) = 10 /\ Len(Downgrade_0011) = 9
  BY LengthsAre DEF Lengths
<1>4. NamedAll(Upgrade_0011, 10) /\ NamedAll(Downgrade_0011, 9)
  BY <1>1, <1>2, <1>3, StepsNamed DEF Listed
<1> QED
  BY <1>4 DEF NamedAll

Stepwise(d, steps, L, a) ==
  a[0] = d /\ \A n \in 1 .. L : a[n] = Execute(a[n - 1], steps[n])

OfLength(steps, L) == L \in Nat /\ Len(steps) = L

LEMMA ExecutionHas ==
  ASSUME NEW d, NEW steps, NEW L, OfLength(steps, L)
  PROVE  Stepwise(d, steps, L, Execution(d, steps))
<1>1. L \in Nat /\ Len(steps) = L
  BY DEF OfLength
<1> DEFINE a == Execution(d, steps)
<1>2. a[0] = d /\ \A n \in 1 .. L : a[n] = Execute(a[n - 1], steps[n])
  BY <1>1, ExecutionIs
<1> QED
  BY <1>2 DEF Stepwise

LEMMA VersionsClimb ==
  ASSUME NEW d, Good(d, 10) PROVE Good(Execution(d, Upgrade_0011)[Len(Upgrade_0011)], 11)
<1> DEFINE up == Upgrade_0011
           a == Execution(d, up)
           s0 == SchemaAt(10)
           s5 == SchemaAt(11)
<1>1. PICK s1, s2, s3, t1, t2, t3, t4, u1, u2 : Stages(s1, s2, s3, t1, t2, t3, t4, u1, u2)
  BY VersionStages
<1>2. Len(up) = 10
  BY LengthsAre DEF Lengths
<1>3. a[0] = d /\ \A n \in 1 .. 10 : a[n] = Execute(a[n - 1], up[n])
  <2>1. OfLength(up, 10)
    BY <1>2 DEF OfLength
  <2>2. Stepwise(d, up, 10, a)
    BY <2>1, ExecutionHas
  <2> QED
    BY <2>2 DEF Stepwise
<1>4. /\ a[1] = Execute(d, up[1]) /\ a[2] = Execute(a[1], up[2]) /\ a[3] = Execute(a[2], up[3])
      /\ a[4] = Execute(a[3], up[4]) /\ a[5] = Execute(a[4], up[5])
      /\ a[6] = Execute(a[5], up[6]) /\ a[7] = Execute(a[6], up[7])
      /\ a[8] = Execute(a[7], up[8]) /\ a[9] = Execute(a[8], up[9])
      /\ a[10] = Execute(a[9], up[10])
  BY <1>3
<1>5. /\ Named(up[1]) /\ Named(up[2]) /\ Named(up[3]) /\ Named(up[6]) /\ Named(up[7])
      /\ Named(up[9]) /\ Named(up[10])
  BY VersionsNamed
<1>6. up[4] = Statement("insert_versions") /\ up[5] = Statement("activate_version_one")
  BY VersionSteps
<1>7. Held(d, "old", s0)
  BY DEF Good, Held, PhaseAt
<1>8. d.versions = {}
  <2>1. Since(Versions) = 11
    BY TablesDeclared, BornIs DEF Versions, TableNames
  <2>2. Versions \notin s0
    BY <2>1 DEF SchemaAt
  <2> QED
    BY <1>7, <2>2 DEF Held, Fine, Rows
<1>9. /\ Growing(s0, up[1], s1) /\ Growing(s1, up[2], s2) /\ Growing(s2, up[3], s3)
      /\ Growing(s3, up[6], t1) /\ Growing(t1, up[7], t2) /\ Shrinking(t2, up[8], t3)
      /\ Growing(t3, up[9], t4) /\ Growing(t4, up[10], s5)
      /\ Guarded(s1, "old") /\ Guarded(s2, "old") /\ Guarded(s3, "old") /\ Versioned(t3, "both")
      /\ Active \in s3 /\ Versions \in s3 /\ Version \notin s3 /\ Status \notin s3
  BY <1>1 DEF Stages
<1> HIDE DEF up, a, s0, s5
<1>10. Held(a[1], "old", s1) /\ SameRows(d, a[1])
  <2>1. Grew(d, "old", s0, up[1], s1)
    BY <1>5, <1>7, <1>9 DEF Grew
  <2> QED
    BY <1>4, <2>1, HeldGrown
<1>11. Held(a[2], "old", s2) /\ SameRows(a[1], a[2])
  <2>1. Grew(a[1], "old", s1, up[2], s2)
    BY <1>5, <1>9, <1>10 DEF Grew
  <2> QED
    BY <1>4, <2>1, HeldGrown
<1>12. Held(a[3], "old", s3) /\ SameRows(a[2], a[3])
  <2>1. Grew(a[2], "old", s2, up[3], s3)
    BY <1>5, <1>9, <1>11 DEF Grew
  <2> QED
    BY <1>4, <2>1, HeldGrown
<1>13. Held(a[4], "both", s3)
  <2>1. a[3].versions = {}
    BY <1>8, <1>10, <1>11, <1>12 DEF SameRows
  <2>2. Unversioned(a[3])
    BY <1>9, <1>12, <2>1 DEF Unversioned, Held
  <2> QED
    BY <1>4, <1>6, <1>12, <2>2, InsertStep, StatedHeld
<1>14. Held(a[5], "both", s3)
  <2>1. Fine(a[4], "both") /\ Active \in a[4].schema
    BY <1>9, <1>13 DEF Held
  <2> QED
    BY <1>4, <1>6, <1>13, <2>1, ActivateStep, StatedHeld
<1>15. Held(a[6], "both", t1)
  <2>1. Grew(a[5], "both", s3, up[6], t1)
    BY <1>5, <1>9, <1>14, BothGuarded DEF Grew
  <2> QED
    BY <1>4, <2>1, HeldGrown
<1>16. Held(a[7], "both", t2)
  <2>1. Grew(a[6], "both", t1, up[7], t2)
    BY <1>5, <1>9, <1>15, BothGuarded DEF Grew
  <2> QED
    BY <1>4, <2>1, HeldGrown
<1>17. Held(a[8], "both", t3)
  <2>1. Shrank(a[7], "both", t2, up[8], t3)
    BY <1>9, <1>16, BothGuarded DEF Shrank
  <2> QED
    BY <1>4, <2>1, HeldShrunk
<1>18. Held(a[9], "both", t4)
  <2>1. Grew(a[8], "both", t3, up[9], t4)
    BY <1>5, <1>9, <1>17, BothGuarded DEF Grew
  <2> QED
    BY <1>4, <2>1, HeldGrown
<1>19. Held(a[10], "both", s5)
  <2>1. Grew(a[9], "both", t4, up[10], s5)
    BY <1>5, <1>9, <1>18, BothGuarded DEF Grew
  <2> QED
    BY <1>4, <2>1, HeldGrown
<1>20. Held(a[10], "new", s5)
  BY <1>19, EitherHeld
<1>21. Good(a[10], 11)
  <2>1. PhaseAt(11) = "new"
    BY DEF PhaseAt
  <2> QED
    BY <1>20, <2>1 DEF Good, Held, s5
<1> QED
  BY <1>2, <1>21 DEF a, up

LEMMA VersionsFall ==
  ASSUME NEW d, Good(d, 11) PROVE Good(Execution(d, Downgrade_0011)[Len(Downgrade_0011)], 10)
<1> DEFINE down == Downgrade_0011
           a == Execution(d, down)
           s0 == SchemaAt(10)
           s5 == SchemaAt(11)
<1>1. PICK s1, s2, s3, t1, t2, t3, t4, u1, u2 : Stages(s1, s2, s3, t1, t2, t3, t4, u1, u2)
  BY VersionStages
<1>2. Len(down) = 9
  BY LengthsAre DEF Lengths
<1>3. a[0] = d /\ \A n \in 1 .. 9 : a[n] = Execute(a[n - 1], down[n])
  <2>1. OfLength(down, 9)
    BY <1>2 DEF OfLength
  <2>2. Stepwise(d, down, 9, a)
    BY <2>1, ExecutionHas
  <2> QED
    BY <2>2 DEF Stepwise
<1>4. /\ a[1] = Execute(d, down[1]) /\ a[2] = Execute(a[1], down[2])
      /\ a[3] = Execute(a[2], down[3]) /\ a[4] = Execute(a[3], down[4])
      /\ a[5] = Execute(a[4], down[5]) /\ a[6] = Execute(a[5], down[6])
      /\ a[7] = Execute(a[6], down[7]) /\ a[8] = Execute(a[7], down[8])
      /\ a[9] = Execute(a[8], down[9])
  BY <1>3
<1>5. Named(down[6]) /\ down[1] = Statement("delete_inactive_chunks")
  BY VersionsNamed, VersionSteps
<1>6. Held(d, "new", s5)
  BY DEF Good, Held, PhaseAt
<1>7. Versioned(s5, "new") /\ Guarded(s0, "old")
  <2>1. 10 \in 0 .. 16 /\ 11 \in 0 .. 16 /\ 11 >= 11 /\ 10 <= 10
    OBVIOUS
  <2> QED
    BY <2>1, GuardsAt
<1>8. /\ Shrinking(s5, down[2], t4) /\ Shrinking(t4, down[3], t3) /\ Shrinking(t3, down[4], u1)
      /\ Shrinking(u1, down[5], u2) /\ Growing(u2, down[6], s3) /\ Shrinking(s3, down[7], s2)
      /\ Shrinking(s2, down[8], s1) /\ Shrinking(s1, down[9], s0)
      /\ Guarded(s1, "old") /\ Guarded(s2, "old") /\ Guarded(s3, "old") /\ Guarded(u2, "old")
      /\ Versioned(t4, "both") /\ Versioned(t3, "both") /\ Versioned(u1, "both")
  BY <1>1 DEF Stages
<1> HIDE DEF down, a, s0, s5
<1>9. Held(a[1], "both", s5)
  <2>1. Fine(d, "new") /\ Versioned(d.schema, "new")
    BY <1>6, <1>7 DEF Held
  <2> QED
    BY <1>4, <1>5, <1>6, <2>1, DiscardStep, StatedHeld
<1>10. Held(a[2], "both", t4)
  <2>1. Shrank(a[1], "both", s5, down[2], t4)
    BY <1>8, <1>9, BothGuarded DEF Shrank
  <2> QED
    BY <1>4, <2>1, HeldShrunk
<1>11. Held(a[3], "both", t3)
  <2>1. Shrank(a[2], "both", t4, down[3], t3)
    BY <1>8, <1>10, BothGuarded DEF Shrank
  <2> QED
    BY <1>4, <2>1, HeldShrunk
<1>12. Held(a[4], "both", u1)
  <2>1. Shrank(a[3], "both", t3, down[4], u1)
    BY <1>8, <1>11, BothGuarded DEF Shrank
  <2> QED
    BY <1>4, <2>1, HeldShrunk
<1>13. Held(a[5], "old", u2)
  <2>1. Shrank(a[4], "old", u1, down[5], u2)
    BY <1>8, <1>12, EitherHeld, OldVersioned DEF Shrank
  <2> QED
    BY <1>4, <2>1, HeldShrunk
<1>14. Held(a[6], "old", s3)
  <2>1. Grew(a[5], "old", u2, down[6], s3)
    BY <1>5, <1>8, <1>13 DEF Grew
  <2> QED
    BY <1>4, <2>1, HeldGrown
<1>15. Held(a[7], "old", s2)
  <2>1. Shrank(a[6], "old", s3, down[7], s2)
    BY <1>8, <1>14, OldVersioned DEF Shrank
  <2> QED
    BY <1>4, <2>1, HeldShrunk
<1>16. Held(a[8], "old", s1)
  <2>1. Shrank(a[7], "old", s2, down[8], s1)
    BY <1>8, <1>15, OldVersioned DEF Shrank
  <2> QED
    BY <1>4, <2>1, HeldShrunk
<1>17. Held(a[9], "old", s0)
  <2>1. Shrank(a[8], "old", s1, down[9], s0)
    BY <1>7, <1>8, <1>16, OldVersioned DEF Shrank
  <2> QED
    BY <1>4, <2>1, HeldShrunk
<1>18. Good(a[9], 10)
  <2>1. PhaseAt(10) = "old"
    BY DEF PhaseAt
  <2> QED
    BY <1>17, <2>1 DEF Good, Held, s0
<1> QED
  BY <1>2, <1>18 DEF a, down

-----------------------------------------------------------------------------
\* No migration of such a database is refused.
SchemaInv == Good(db, rev) /\ refused = FALSE

LEMMA NameFits ==
  ASSUME NEW r \in 1 .. 16, NEW e, Good(e, r) PROVE Len(Revisions[r]) <= e.width
<1>1. Len(Revisions[r]) \in 1 .. (IF r < 10 THEN 32 ELSE 64)
  BY RevisionNamesFit, HeadIs
<1>2. e.width \in {32, 64} /\ (r >= 10 => e.width = 64)
  BY DEF Good
<1> DEFINE length == Len(Revisions[r])
           width == e.width
<1>3. length \in 1 .. (IF r < 10 THEN 32 ELSE 64) /\ width \in {32, 64} /\ (r >= 10 => width = 64)
  BY <1>1, <1>2
<1> HIDE DEF length, width
<1>4. length <= width
  <2>1. CASE r < 10
    BY <1>3, <2>1
  <2>2. CASE ~(r < 10)
    <3>1. r >= 10
      BY <2>2
    <3> QED
      BY <1>3, <2>2, <3>1
  <2> QED
    BY <2>1, <2>2
<1> QED
  BY <1>4 DEF length, width

LEMMA Commits ==
  ASSUME NEW steps, NEW target \in 0 .. 16, Migrate(steps, target), refused = FALSE,
         Good(Execution(db, steps)[Len(steps)], target)
  PROVE  Good(db', rev') /\ refused' = FALSE
<1> DEFINE after == Execution(db, steps)[Len(steps)]
           fits == target > 0 => Len(Revisions[target]) <= after.width
<1>1. IF after.ok /\ fits THEN db' = after /\ rev' = target /\ UNCHANGED refused
      ELSE refused' = TRUE /\ UNCHANGED <<db, rev>>
  BY DEF Migrate
<1>2. Good(after, target)
  OBVIOUS
<1> HIDE DEF after
<1>3. after.ok = TRUE
  BY <1>2 DEF Good, Fine
<1>4. fits
  <2> SUFFICES ASSUME target > 0 PROVE Len(Revisions[target]) <= after.width
    OBVIOUS
  <2>1. target \in 1 .. 16
    OBVIOUS
  <2> QED
    BY <1>2, <2>1, NameFits
<1> HIDE DEF fits
<1> QED
  BY <1>1, <1>2, <1>3, <1>4

LEMMA UpgradeCommits ==
  ASSUME rev \in 0 .. 16, SchemaInv, Upgrade PROVE SchemaInv'
<1> DEFINE r == rev + 1
           steps == UpgradeSteps[r]
<1>1. /\ rev \in 0 .. 15 /\ r \in 1 .. 16 /\ r \in 0 .. 16 /\ r - 1 = rev
      /\ Migrate(steps, r) /\ refused = FALSE /\ Good(db, rev)
  BY HeadIs DEF Upgrade, SchemaInv
<1>2. UpgradeSteps[11] = Upgrade_0011
  BY DEF UpgradeSteps
<1> HIDE DEF r
<1>3. Good(Execution(db, steps)[Len(steps)], r)
  <2>1. CASE r = 11
    <3>1. Good(db, 10) /\ steps = Upgrade_0011
      BY <1>1, <1>2, <2>1
    <3> HIDE DEF steps
    <3> QED
      BY <2>1, <3>1, VersionsClimb
  <2>2. CASE r # 11
    <3>1. Good(db, r - 1)
      BY <1>1
    <3>2. Good(Execution(db, UpgradeSteps[r])[Len(UpgradeSteps[r])], r)
      BY <1>1, <2>2, <3>1, ClimbsWell
    <3> QED
      BY <3>2
  <2> QED
    BY <2>1, <2>2
<1> HIDE DEF steps
<1>4. Good(db', rev') /\ refused' = FALSE
  BY <1>1, <1>3, Commits
<1> QED
  BY <1>4 DEF SchemaInv

LEMMA DowngradeCommits ==
  ASSUME rev \in 0 .. 16, SchemaInv, Downgrade PROVE SchemaInv'
<1> DEFINE s == rev - 1
           steps == DowngradeSteps[rev]
<1>1. /\ rev \in 1 .. 16 /\ s \in 0 .. 16
      /\ Migrate(steps, s) /\ refused = FALSE /\ Good(db, rev)
  BY DEF Downgrade, SchemaInv
<1>2. DowngradeSteps[11] = Downgrade_0011
  BY DEF DowngradeSteps
<1>3. Good(Execution(db, steps)[Len(steps)], s)
  <2>1. CASE rev = 11
    <3>1. Good(db, 11) /\ steps = Downgrade_0011 /\ s = 10
      BY <1>1, <1>2, <2>1
    <3> HIDE DEF steps, s
    <3> QED
      BY <3>1, VersionsFall
  <2>2. CASE rev # 11
    <3>1. Good(Execution(db, DowngradeSteps[rev])[Len(DowngradeSteps[rev])], rev - 1)
      BY <1>1, <2>2, FallsWell
    <3> QED
      BY <3>1
  <2> QED
    BY <2>1, <2>2
<1> HIDE DEF steps, s
<1>4. Good(db', rev') /\ refused' = FALSE
  BY <1>1, <1>3, Commits
<1> QED
  BY <1>4 DEF SchemaInv

-----------------------------------------------------------------------------
\* The steps that change rows leave the schema alone, and the rows in order.
LEMMA RowsGood ==
  ASSUME SchemaInv, MigrationInv', rev' = rev, refused' = refused,
         db'.schema = db.schema, db'.width = db.width, RowsIn(db', PhaseAt(rev))
  PROVE  SchemaInv'
<1>1. IsDb(db') /\ db'.ok = TRUE /\ Rows(db')
  BY DEF MigrationInv, Sane
<1>2. /\ db.schema = SchemaAt(rev) /\ db.width \in {32, 64} /\ (rev >= 10 => db.width = 64)
      /\ refused = FALSE
  BY DEF SchemaInv, Good
<1>3. Fine(db', PhaseAt(rev))
  BY <1>1 DEF Fine
<1>4. Good(db', rev)
  BY <1>2, <1>3 DEF Good
<1> QED
  BY <1>2, <1>4 DEF SchemaInv

\* The rows of a database that is a Holding of another.
LEMMA HoldsRows ==
  ASSUME NEW d, IsDb(d), NEW chunks, NEW embedded, NEW versions, NEW active, NEW e,
         e = Holding(d, chunks, embedded, versions, active)
  PROVE  e.chunks = chunks /\ e.versions = versions /\ e.schema = d.schema /\ e.width = d.width
<1> DEFINE h == Holding(d, chunks, embedded, versions, active)
<1>1. h.chunks = chunks /\ h.versions = versions /\ h.schema = d.schema
  BY HoldingIs
<1>2. h.width = d.width
  BY HoldingWidth
<1> QED
  BY <1>1, <1>2

LEMMA LegacyProcessGood ==
  ASSUME MigrationInv, SchemaInv, MigrationInv', NEW x \in Docs, NEW n \in 1 .. 2,
         LegacyProcess(x, n)
  PROVE  SchemaInv'
<1> DEFINE new == NewChunks(x, 1, n)
           chunks == db.chunks \cup new
           e == Holding(db, chunks, db.embedded, db.versions, db.active)
<1>1. /\ IsDb(db) /\ rev \in 3 .. 10 /\ made \in Nat
      /\ RowsIn(db, PhaseAt(rev)) /\ \A c \in db.chunks : c.doc # x
  BY DEF MigrationInv, Sane, LegacyProcess, SchemaInv, Good, Fine
<1>2. PhaseAt(rev) = "old"
  BY <1>1 DEF PhaseAt
<1>3. db' = e /\ rev' = rev /\ refused' = refused
  BY <1>1 DEF LegacyProcess, Holding, IsDb
<1>4. \A c \in new : \E i \in 1 .. n :
        c = [id |-> made + i, doc |-> x, version |-> 1, index |-> i]
  BY DEF NewChunks
<1>5. \A b, c \in new : b.index = c.index => b = c
  <2> HIDE DEF new
  <2> QED
    BY <1>4
<1>6. \A c \in new : c.doc = x
  <2> HIDE DEF new
  <2> QED
    BY <1>4
<1>7. OnePerIndex(db) /\ OneProcessing(db)
  BY <1>1, <1>2 DEF RowsIn
<1> HIDE DEF new
<1>8. \A b, c \in chunks : b.doc = c.doc /\ b.index = c.index => b = c
  BY <1>1, <1>5, <1>6, <1>7 DEF OnePerIndex
<1> HIDE DEF chunks, e
<1>9. /\ e.chunks = chunks /\ e.versions = db.versions
      /\ e.schema = db.schema /\ e.width = db.width
  BY <1>1, HoldsRows DEF e
<1>10. RowsIn(e, "old")
  BY <1>7, <1>8, <1>9 DEF RowsIn, OnePerIndex, OneProcessing
<1> QED
  BY <1>2, <1>3, <1>9, <1>10, RowsGood

LEMMA LegacyEmbedGood ==
  ASSUME MigrationInv, SchemaInv, MigrationInv', NEW x \in Docs, LegacyEmbed(x)
  PROVE  SchemaInv'
<1> DEFINE embedded == db.embedded \cup Ids({c \in db.chunks : c.doc = x})
           e == Holding(db, db.chunks, embedded, db.versions, db.active)
<1>1. IsDb(db) /\ RowsIn(db, PhaseAt(rev)) /\ rev \in 4 .. 10
  BY DEF MigrationInv, Sane, LegacyEmbed, SchemaInv, Good, Fine
<1>2. db' = e /\ rev' = rev /\ refused' = refused
  BY <1>1 DEF LegacyEmbed, Holding, IsDb
<1> HIDE DEF embedded, e
<1>3. /\ e.chunks = db.chunks /\ e.versions = db.versions
      /\ e.schema = db.schema /\ e.width = db.width
  BY <1>1, HoldsRows DEF e
<1>4. RowsIn(e, PhaseAt(rev))
  BY <1>1, <1>3 DEF RowsIn, OnePerIndex, OnePerVersion, Referred, OneProcessing
<1> QED
  BY <1>2, <1>3, <1>4, RowsGood

\* At the last revision: what the rows satisfy, in full.
LEMMA HeadRows ==
  ASSUME MigrationInv, SchemaInv, rev = HeadRevision
  PROVE  /\ PhaseAt(rev) = "new" /\ IsDb(db) /\ Rows(db) /\ made \in Nat
         /\ OnePerVersion(db) /\ Referred(db) /\ Distinct(db.versions) /\ Counted(db.versions)
         /\ OneProcessing(db)
<1>1. rev = 16 /\ IsDb(db) /\ Rows(db) /\ made \in Nat
  BY AtHead
<1>2. PhaseAt(rev) = "new"
  BY <1>1 DEF PhaseAt
<1>3. RowsIn(db, "new")
  BY <1>2 DEF SchemaInv, Good, Fine
<1> QED
  BY <1>1, <1>2, <1>3 DEF RowsIn

\* A version is numbered above every other of its document, so that none of the
\* chunks there are belongs to it.
LEMMA StagedIsNew ==
  ASSUME NEW S, S \subseteq VersionRow, IsFiniteSet(S), Distinct(S), Counted(S),
         NEW x \in Docs, NEW next, next = 1 + Cardinality({v \in S : v.doc = x}),
         NEW status \in {"processing", "ready", "failed"},
         NEW T, T = S \cup {[doc |-> x, version |-> next, status |-> status]}
  PROVE  /\ \A v \in S : v.doc = x => v.version # next
         /\ Distinct(T) /\ Counted(T)
<1> DEFINE row == [doc |-> x, version |-> next, status |-> status]
           A == {v \in S : v.doc = x}
<1>1. A \in SUBSET S /\ \A v \in A : v.doc = x
  OBVIOUS
<1>2. next = 1 + Cardinality(A)
  OBVIOUS
<1>3. \A v \in S : v.doc = x => v.version <= Cardinality(A)
  BY DEF Counted
<1>4. row.doc = x /\ row.version = next
  OBVIOUS
<1>5. \A v \in S : v.version \in Nat
  BY DEF VersionRow
<1>6. T = S \cup {row}
  OBVIOUS
<1> HIDE DEF A, row
<1>7. IsFiniteSet(A)
  BY <1>1, FS_Subset
<1>8. Cardinality(A) \in Nat
  BY <1>7, FS_CardinalityType
<1>9. \A v \in S : v.doc = x => v.version # next
  BY <1>2, <1>3, <1>5, <1>8
<1>10. Distinct(T)
  BY <1>4, <1>6, <1>9 DEF Distinct
<1>11. Counted(T)
  <2> SUFFICES ASSUME NEW t \in T PROVE t.version <= Cardinality({w \in T : w.doc = t.doc})
    BY DEF Counted
  <2>1. CASE t.doc = x
    <3>1. {w \in T : w.doc = t.doc} = A \cup {row}
      BY <1>4, <1>6, <2>1 DEF A
    <3>2. row \notin A
      BY <1>1, <1>4, <1>9
    <3>3. Cardinality(A \cup {row}) = Cardinality(A) + 1
      BY <1>7, <3>2, FS_AddElement
    <3>4. t = row \/ t.version <= Cardinality(A)
      BY <1>3, <1>6, <2>1
    <3>5. t.version \in Nat
      BY <1>2, <1>4, <1>5, <1>6, <1>8
    <3>6. t.version <= Cardinality(A) + 1
      BY <1>2, <1>4, <1>8, <3>4, <3>5
    <3> QED
      BY <3>1, <3>3, <3>6
  <2>2. CASE t.doc # x
    <3>1. t \in S /\ {w \in T : w.doc = t.doc} = {w \in S : w.doc = t.doc}
      BY <1>4, <1>6, <2>2
    <3> QED
      BY <3>1 DEF Counted
  <2> QED
    BY <2>1, <2>2
<1> QED
  BY <1>9, <1>10, <1>11

LEMMA StageVersionGood ==
  ASSUME MigrationInv, SchemaInv, MigrationInv', NEW x \in Docs, NEW n \in 1 .. 2,
         StageVersion(x, n)
  PROVE  SchemaInv'
<1> DEFINE next == 1 + Cardinality(VersionsOf(x))
           row == [doc |-> x, version |-> next, status |-> "processing"]
           new == NewChunks(x, next, n)
           chunks == db.chunks \cup new
           versions == db.versions \cup {row}
           e == Holding(db, chunks, db.embedded, versions, db.active)
<1>1. rev = HeadRevision
  BY DEF StageVersion
<1>2. /\ PhaseAt(rev) = "new" /\ IsDb(db) /\ Rows(db) /\ made \in Nat
      /\ OnePerVersion(db) /\ Referred(db) /\ Distinct(db.versions) /\ Counted(db.versions)
      /\ OneProcessing(db)
  BY <1>1, HeadRows
<1>3. db' = e /\ rev' = rev /\ refused' = refused
  BY <1>2 DEF StageVersion, Holding, IsDb
<1>4. VersionsOf(x) = {v \in db.versions : v.doc = x}
  BY DEF VersionsOf
<1>5. \A v \in db.versions : v.doc = x => v.status # "processing"
  BY <1>4 DEF StageVersion
<1>6. next = 1 + Cardinality({v \in db.versions : v.doc = x})
  BY <1>4
<1>7. row.doc = x /\ row.version = next /\ row.status = "processing" /\ row \in versions
  OBVIOUS
<1>8. \A c \in new : \E i \in 1 .. n :
        c = [id |-> made + i, doc |-> x, version |-> next, index |-> i]
  BY DEF NewChunks
<1>9. versions = db.versions \cup {[doc |-> x, version |-> next, status |-> "processing"]}
  OBVIOUS
<1> HIDE DEF next, new
<1>10. \A b, c \in new : b.index = c.index => b = c
  BY <1>8
<1>11. \A c \in new : c.doc = x /\ c.version = next
  BY <1>8
<1>12. /\ \A v \in db.versions : v.doc = x => v.version # next
       /\ Distinct(versions) /\ Counted(versions)
  <2>1. db.versions \subseteq VersionRow /\ IsFiniteSet(db.versions)
    BY <1>2 DEF Rows
  <2> HIDE DEF row, versions
  <2> QED
    BY <1>2, <1>6, <1>9, <2>1, StagedIsNew
<1>13. \A c \in db.chunks : c.doc = x => c.version # next
  BY <1>2, <1>12 DEF Referred
<1> HIDE DEF row
<1>14. \A b, c \in chunks :
         b.doc = c.doc /\ b.version = c.version /\ b.index = c.index => b = c
  BY <1>2, <1>10, <1>11, <1>13 DEF OnePerVersion
<1>15. \A c \in chunks : \E v \in versions : v.doc = c.doc /\ v.version = c.version
  BY <1>2, <1>7, <1>11 DEF Referred
<1>16. \A v, w \in versions :
         v.doc = w.doc /\ v.status = "processing" /\ w.status = "processing" => v = w
  BY <1>2, <1>5, <1>7 DEF OneProcessing
<1> HIDE DEF chunks, versions, e
<1>17. e.chunks = chunks /\ e.versions = versions /\ e.schema = db.schema /\ e.width = db.width
  BY <1>2, HoldsRows DEF e
<1>18. RowsIn(e, "new")
  BY <1>12, <1>14, <1>15, <1>16, <1>17
     DEF RowsIn, OnePerVersion, Referred, OneProcessing
<1> QED
  BY <1>2, <1>3, <1>17, <1>18, RowsGood

\* A version under another status is the same version.
InOrder(versions) ==
  /\ versions \subseteq VersionRow /\ IsFiniteSet(versions)
  /\ Distinct(versions) /\ Counted(versions)
  /\ \A v, w \in versions :
       v.doc = w.doc /\ v.status = "processing" /\ w.status = "processing" => v = w

Restated(S, v, status, T) ==
  /\ v \in S /\ status \in {"processing", "ready", "failed"}
  /\ T = (S \ {v}) \cup {[v EXCEPT !.status = status]}
  /\ status = "processing" => \A w \in S : w.doc = v.doc => w.status # "processing"

LEMMA RestatedRows ==
  ASSUME NEW S, InOrder(S), NEW v, NEW status, NEW T, Restated(S, v, status, T)
  PROVE  /\ InOrder(T)
         /\ \A w \in S : \E u \in T : u.doc = w.doc /\ u.version = w.version
<1> DEFINE row == [v EXCEPT !.status = status]
<1>0. /\ S \subseteq VersionRow /\ IsFiniteSet(S) /\ Distinct(S) /\ Counted(S)
      /\ \A w, u \in S :
           w.doc = u.doc /\ w.status = "processing" /\ u.status = "processing" => w = u
      /\ v \in S /\ status \in {"processing", "ready", "failed"}
      /\ T = (S \ {v}) \cup {row}
      /\ status = "processing" => \A w \in S : w.doc = v.doc => w.status # "processing"
  BY DEF InOrder, Restated
<1>1. row.doc = v.doc /\ row.version = v.version /\ row.status = status /\ row \in VersionRow
  BY <1>0 DEF VersionRow
<1> HIDE DEF row
<1>2. T \subseteq VersionRow /\ IsFiniteSet(T)
  <2>1. IsFiniteSet(S \ {v})
    BY <1>0, FS_RemoveElement
  <2>2. IsFiniteSet((S \ {v}) \cup {row})
    BY <2>1, FS_AddElement
  <2> QED
    BY <1>0, <1>1, <2>2
<1>3. \A w \in S : \E u \in T : u.doc = w.doc /\ u.version = w.version
  BY <1>0, <1>1
<1>4. \A u \in T : \E w \in S : u.doc = w.doc /\ u.version = w.version
  BY <1>0, <1>1
<1>5. Distinct(T)
  BY <1>0, <1>1 DEF Distinct
<1>6. Counted(T)
  <2>1. /\ \A w \in S : \E u \in T : u.doc = w.doc /\ u.version = w.version
        /\ \A u \in T : \E w \in S : w.doc = u.doc /\ w.version = u.version
    BY <1>3, <1>4
  <2> QED
    BY <1>0, <1>2, <2>1, Recounted
<1>7. \A w, u \in T :
        w.doc = u.doc /\ w.status = "processing" /\ u.status = "processing" => w = u
  BY <1>0, <1>1
<1> QED
  BY <1>2, <1>3, <1>5, <1>6, <1>7 DEF InOrder

LEMMA RestateGood ==
  ASSUME MigrationInv, SchemaInv, MigrationInv', rev = HeadRevision,
         NEW v \in db.versions, NEW status \in {"processing", "ready", "failed"},
         status = "processing" => \A w \in db.versions : w.doc = v.doc => w.status # "processing",
         NEW embedded, NEW active,
         db' = Holding(db, db.chunks, embedded,
                       (db.versions \ {v}) \cup {[v EXCEPT !.status = status]}, active),
         UNCHANGED <<rev, refused>>
  PROVE  SchemaInv'
<1> DEFINE versions == (db.versions \ {v}) \cup {[v EXCEPT !.status = status]}
           e == Holding(db, db.chunks, embedded, versions, active)
<1>1. /\ PhaseAt(rev) = "new" /\ IsDb(db) /\ Rows(db)
      /\ OnePerVersion(db) /\ Referred(db) /\ Distinct(db.versions) /\ Counted(db.versions)
      /\ OneProcessing(db)
  BY HeadRows
<1>2. InOrder(db.versions)
  BY <1>1 DEF Rows, OneProcessing, InOrder
<1>3. Restated(db.versions, v, status, versions)
  BY DEF Restated
<1>4. /\ InOrder(versions)
      /\ \A w \in db.versions : \E u \in versions : u.doc = w.doc /\ u.version = w.version
  BY <1>2, <1>3, RestatedRows
<1>5. db' = e
  OBVIOUS
<1> HIDE DEF versions, e
<1>6. e.chunks = db.chunks /\ e.versions = versions /\ e.schema = db.schema /\ e.width = db.width
  BY <1>1, HoldsRows DEF e
<1>7. OnePerVersion(e)
  BY <1>1, <1>6 DEF OnePerVersion
<1>8. Referred(e)
  <2> SUFFICES ASSUME NEW c \in db.chunks
               PROVE  \E u \in versions : u.doc = c.doc /\ u.version = c.version
    BY <1>6 DEF Referred
  <2>1. PICK w \in db.versions : w.doc = c.doc /\ w.version = c.version
    BY <1>1 DEF Referred
  <2>2. PICK u \in versions : u.doc = w.doc /\ u.version = w.version
    BY <1>4
  <2> QED
    BY <2>1, <2>2
<1>9. RowsIn(e, "new")
  BY <1>4, <1>6, <1>7, <1>8 DEF RowsIn, OneProcessing, InOrder
<1> QED
  BY <1>1, <1>5, <1>6, <1>9, RowsGood

-----------------------------------------------------------------------------
LEMMA RowStepGood == MigrationInv /\ SchemaInv /\ RowStep => SchemaInv'
<1> SUFFICES ASSUME MigrationInv, SchemaInv, RowStep PROVE SchemaInv'
  OBVIOUS
<1>1. PICK x \in Docs :
        \/ \E n \in 1 .. 2 : LegacyProcess(x, n) \/ StageVersion(x, n)
        \/ LegacyEmbed(x)
        \/ RetryVersion(x)
        \/ PromoteVersion(x)
        \/ FailVersion(x)
  BY DEF RowStep
<1>2. MigrationInv' /\ IsDb(db)
  BY RowKeeps DEF MigrationInv, Sane
<1>3. CASE \E n \in 1 .. 2 : LegacyProcess(x, n)
  BY <1>2, <1>3, LegacyProcessGood
<1>4. CASE \E n \in 1 .. 2 : StageVersion(x, n)
  BY <1>2, <1>4, StageVersionGood
<1>5. CASE LegacyEmbed(x)
  BY <1>2, <1>5, LegacyEmbedGood
<1>6. CASE RetryVersion(x)
  <2>1. PICK v \in VersionsOf(x) :
          db' = [db EXCEPT !.versions = (@ \ {v}) \cup {[v EXCEPT !.status = "processing"]}]
    BY <1>6 DEF RetryVersion
  <2>2. /\ v \in db.versions /\ v.doc = x /\ rev = HeadRevision /\ UNCHANGED <<rev, refused>>
        /\ \A w \in db.versions : w.doc = x => w.status # "processing"
    BY <1>6 DEF RetryVersion, VersionsOf
  <2>3. db' = Holding(db, db.chunks, db.embedded,
                      (db.versions \ {v}) \cup {[v EXCEPT !.status = "processing"]}, db.active)
    BY <1>2, <2>1 DEF Holding, IsDb
  <2> QED
    BY <1>2, <2>2, <2>3, RestateGood
<1>7. CASE PromoteVersion(x)
  <2>1. PICK v \in VersionsOf(x) :
          db' = [db EXCEPT
              !.versions = (@ \ {v}) \cup {[v EXCEPT !.status = "ready"]},
              !.embedded = @ \cup Ids({c \in db.chunks : c.doc = x /\ c.version = v.version}),
              !.active[x] = v.version]
    BY <1>7 DEF PromoteVersion
  <2>2. v \in db.versions /\ rev = HeadRevision /\ UNCHANGED <<rev, refused>>
    BY <1>7 DEF PromoteVersion, VersionsOf
  <2> DEFINE embedded ==
               db.embedded \cup Ids({c \in db.chunks : c.doc = x /\ c.version = v.version})
             active == [db.active EXCEPT ![x] = v.version]
  <2>3. db' = Holding(db, db.chunks, embedded,
                      (db.versions \ {v}) \cup {[v EXCEPT !.status = "ready"]}, active)
    BY <1>2, <2>1 DEF Holding, IsDb
  <2> HIDE DEF embedded, active
  <2> QED
    BY <1>2, <2>2, <2>3, RestateGood
<1>8. CASE FailVersion(x)
  <2>1. PICK v \in VersionsOf(x) :
          db' = [db EXCEPT !.versions = (@ \ {v}) \cup {[v EXCEPT !.status = "failed"]}]
    BY <1>8 DEF FailVersion
  <2>2. v \in db.versions /\ rev = HeadRevision /\ UNCHANGED <<rev, refused>>
    BY <1>8 DEF FailVersion, VersionsOf
  <2>3. db' = Holding(db, db.chunks, db.embedded,
                      (db.versions \ {v}) \cup {[v EXCEPT !.status = "failed"]}, db.active)
    BY <1>2, <2>1 DEF Holding, IsDb
  <2> QED
    BY <1>2, <2>2, <2>3, RestateGood
<1> QED
  BY <1>1, <1>3, <1>4, <1>5, <1>6, <1>7, <1>8

LEMMA SchemaKeeps == MigrationInv /\ SchemaInv /\ [Next]_vars => SchemaInv'
<1> SUFFICES ASSUME MigrationInv, SchemaInv, [Next]_vars PROVE SchemaInv'
  OBVIOUS
<1>1. CASE UNCHANGED migrationVars
  BY <1>1 DEF migrationVars, SchemaInv
<1>2. CASE MigrationStep
  <2>1. rev \in 0 .. 16
    BY DEF MigrationInv
  <2> QED
    BY <1>2, <2>1, UpgradeCommits, DowngradeCommits DEF MigrationStep
<1>3. CASE RowStep
  BY <1>3, RowStepGood
<1> QED
  BY <1>1, <1>2, <1>3 DEF Next, vars

LEMMA SchemaStarts == ToolInit => SchemaInv
<1> SUFFICES ASSUME ToolInit PROVE SchemaInv
  OBVIOUS
<1>1. /\ rev = 0 /\ refused = FALSE
      /\ db = [schema |-> {}, width |-> 32, chunks |-> {}, embedded |-> {}, versions |-> {},
               active |-> [x \in Docs |-> 0], ok |-> TRUE]
  BY DEF ToolInit, Init
<1>2. /\ IsDb(db) /\ db.ok = TRUE /\ Rows(db)
      /\ db.schema = {} /\ db.width = 32 /\ db.chunks = {} /\ db.versions = {}
  BY <1>1, MigrationStarts DEF MigrationInv, Sane
<1>3. SchemaAt(rev) = {}
  BY <1>1, SchemaGrows
<1>4. PhaseAt(rev) = "old"
  BY <1>1 DEF PhaseAt
<1>5. RowsIn(db, "old")
  BY <1>2 DEF RowsIn, OnePerIndex, OneProcessing
<1>6. Fine(db, PhaseAt(rev))
  BY <1>2, <1>4, <1>5 DEF Fine
<1> QED
  BY <1>1, <1>2, <1>3, <1>6 DEF SchemaInv, Good

\* At every revision, and however often the database went down and up, its
\* schema is the one of that revision, and the rows satisfy what its unique
\* keys, foreign keys and indexes ask: no more and no less than the steps of the
\* next migration, up or down, rely on.
THEOREM SchemaInvariance == Spec => []SchemaInv
  BY SchemaStarts, SchemaKeeps, MigrationInvariance, PTL DEF Spec

\* No migration ends in an error, for any documents, chunks and versions and
\* after any migrations: nothing named is missing or there already, no dropped
\* table is referred to, no row breaks a constraint that comes back, and the name
\* of the revision fits the column it is written to.
THEOREM MigrationsNeverRefused == Spec => []NeverRefused
<1>1. SchemaInv => NeverRefused
  BY DEF SchemaInv, NeverRefused
<1> QED
  BY <1>1, SchemaInvariance, PTL

\* At the last revision the schema is the one the persistence classes declare:
\* nothing a downgrade or an upgrade left behind, and nothing it took too much.
THEOREM HeadSchemaDeclared == Spec => []HeadIsDeclared
<1>1. SchemaInv => HeadIsDeclared
  <2>1. SchemaInv => db.schema = SchemaAt(rev)
    BY DEF SchemaInv, Good
  <2> QED
    BY <2>1, HeadIs, HeadSchema DEF HeadIsDeclared
<1> QED
  BY <1>1, SchemaInvariance, PTL

=============================================================================
