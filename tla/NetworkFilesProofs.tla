------------------------- MODULE NetworkFilesProofs -------------------------
(***************************************************************************)
(* Proofs about the tools that save, open, start and edit networks, for    *)
(* any number of them at once, any orders, files and changes by others:    *)
(* what was to be kept is on disk when it is discarded, where it can be    *)
(* written; edits do not mix, and an edit that fails has lost nothing.     *)
(***************************************************************************)
EXTENDS NetworkFiles, TLAPS

----------------------------------------------------------------------------
\* The invariant.

\* A record of these fields, whatever they hold.
IsJob(j) ==
  /\ j \in [pc : {j.pc}, order : {j.order}, path : {j.path}, before : {j.before}, took : {j.took},
             extra : {j.extra}, steady : BOOLEAN, undisturbed : BOOLEAN, result : {j.result}]
  /\ IsNetwork(j.took)

\* The disk and the jobs; what has a scratch file's name is an edit's, and is there.
DiskFits ==
  /\ IsNetwork(network) /\ \A p \in DOMAIN disk : IsNetwork(disk[p])
  /\ scratched \in 0 .. Len(Scratch)
  /\ file = NoPath \/ file \in DOMAIN disk
  /\ file \in ScratchNames => file \in ScratchFiles
  /\ DOMAIN disk \cap ScratchNames = ScratchFiles

JobsFit ==
  /\ job = [k \in Clerks |-> job[k]]
  /\ \A k \in Clerks : IsJob(job[k])

\* Where a job stands, it has the tool and the paths for.
Saving == {"folder", "write", "written"}
Editing == {"before", "bytes", "scratch", "list", "strip"}

StandsRight(k) ==
  /\ job[k].pc \in {"free", "current", "there", "clear", "load", "count"} \cup Saving \cup Editing
  /\ ~Busy(k) => job[k] = [Free EXCEPT !.result = job[k].result]
  /\ Busy(k) => job[k].order \in Orders
  /\ job[k].pc = "current" => Tool(k) = "save"
  /\ job[k].pc \in Saving => Tool(k) # "edit" /\ (Tool(k) = "save" \/ job[k].order.keep # NoPath)
  /\ job[k].pc \in Saving \cup {"there", "clear"} /\ Tool(k) \in {"open", "new"} =>
       job[k].path = job[k].order.keep
  /\ job[k].pc \in {"there", "load", "count"} => Tool(k) \in {"open", "edit"}
  /\ job[k].pc = "clear" => Tool(k) \in {"open", "new", "edit"}
  /\ job[k].pc \in Editing => Tool(k) = "edit"
  /\ job[k].pc \in Saving \cup {"clear", "load"} /\ Tool(k) = "open" => Source(k) \in DOMAIN disk
  /\ job[k].path \in ScratchNames => job[k].path \in ScratchFiles

\* The scratch file of an edit that has not opened it yet is the edit's alone.
HasScratch(k) == Tool(k) = "edit" /\ job[k].pc \in {"there", "clear", "load"}
ScratchIsOwn(k) ==
  HasScratch(k) =>
    /\ job[k].path \in ScratchFiles /\ disk[job[k].path] = Edited(k)
    /\ file # job[k].path
    /\ \A i \in Clerks \ {k} : job[i].path # job[k].path

\* What was to be kept is in its file, once it has been looked for.
IsKept(k) ==
  Tool(k) \in {"open", "new"} /\ job[k].order.keep # NoPath =>
    /\ (/\ job[k].pc \in {"written", "clear"} /\ job[k].undisturbed
        /\ job[k].order.keep \in DOMAIN disk \ Unwritable)
         => disk[job[k].order.keep] = network
    /\ job[k].pc = "clear" => job[k].order.keep \in DOMAIN disk

\* How far a steady edit has got with the network it was given.
EditsSteadily(k) ==
  Tool(k) = "edit" /\ job[k].steady =>
    /\ job[k].pc \in {"bytes", "scratch", "there", "clear"} => job[k].before = network.units
    /\ job[k].pc \in {"scratch", "there", "clear"} => job[k].took = network
    /\ job[k].pc \in {"load", "count", "list", "strip"} => job[k].before = job[k].took.units
    /\ job[k].pc \in {"count", "list"} => job[k].before \subseteq network.units
    /\ job[k].pc = "strip" =>
         network.units = job[k].before \cup job[k].extra /\ job[k].before \cap job[k].extra = {}

\* What nobody else has changed since it was taken is open, or was edited and is open.
EditsUndisturbed(k) ==
  Tool(k) = "edit" /\ job[k].undisturbed =>
    /\ job[k].pc = "scratch" => network = job[k].took
    /\ job[k].pc \in {"count", "list", "strip"} => network.work = Edited(k).work

SteadyIsUndisturbed(k) ==
  Tool(k) = "edit" /\ job[k].steady => job[k].undisturbed

Fits(k) ==
  StandsRight(k) /\ ScratchIsOwn(k) /\ IsKept(k) /\ EditsSteadily(k) /\ EditsUndisturbed(k)
    /\ SteadyIsUndisturbed(k)

Inductive == DiskFits /\ JobsFit /\ \A k \in Clerks : Fits(k)

----------------------------------------------------------------------------
\* How a job goes on.

\* The parts a job goes on with: the new ones, and the others as they were.
Parts(n, a, b, c, d, e, f, g, h) ==
  /\ IsJob(n) /\ n.pc = a /\ n.order = b /\ n.path = c /\ n.before = d /\ n.took = e /\ n.extra = f
  /\ n.steady = g /\ n.undisturbed = h

LEMMA JobGoesOn ==
  ASSUME NEW j, IsJob(j), NEW x, NEW y
  PROVE  /\ Parts([j EXCEPT !.pc = x],
                  x, j.order, j.path, j.before, j.took, j.extra, j.steady, j.undisturbed)
         /\ Parts([j EXCEPT !.pc = x, !.path = y],
                  x, j.order, y, j.before, j.took, j.extra, j.steady, j.undisturbed)
         /\ Parts([j EXCEPT !.pc = x, !.before = y],
                  x, j.order, j.path, y, j.took, j.extra, j.steady, j.undisturbed)
         /\ Parts([j EXCEPT !.pc = x, !.extra = y],
                  x, j.order, j.path, j.before, j.took, y, j.steady, j.undisturbed)
         /\ Parts([j EXCEPT !.extra = x],
                  j.pc, j.order, j.path, j.before, j.took, x, j.steady, j.undisturbed)
<1>1. Parts([j EXCEPT !.pc = x],
            x, j.order, j.path, j.before, j.took, j.extra, j.steady, j.undisturbed)
  BY DEF IsJob, Parts
<1>2. Parts([j EXCEPT !.pc = x, !.path = y],
            x, j.order, y, j.before, j.took, j.extra, j.steady, j.undisturbed)
  BY DEF IsJob, Parts
<1>3. Parts([j EXCEPT !.pc = x, !.before = y],
            x, j.order, j.path, y, j.took, j.extra, j.steady, j.undisturbed)
  BY DEF IsJob, Parts
<1>4. Parts([j EXCEPT !.pc = x, !.extra = y],
            x, j.order, j.path, j.before, j.took, y, j.steady, j.undisturbed)
  BY DEF IsJob, Parts
<1>5. Parts([j EXCEPT !.extra = x],
            j.pc, j.order, j.path, j.before, j.took, x, j.steady, j.undisturbed)
  BY DEF IsJob, Parts
<1>6. QED BY Zenon, <1>1, <1>2, <1>3, <1>4, <1>5

LEMMA FreeIsJob ==
  ASSUME NEW r
  PROVE  IsJob([Free EXCEPT !.result = r])
<1>1. IsNetwork(Empty)
  BY DEF IsNetwork, Empty
<1>2. QED BY <1>1 DEF IsJob, Free

LEMMA GoesEffect ==
  ASSUME JobsFit, NEW c \in Clerks, NEW j, IsJob(j), Goes(c, j)
  PROVE  JobsFit' /\ job'[c] = j /\ \A i \in Clerks \ {c} : job'[i] = job[i]
BY DEF JobsFit, Goes

LEMMA FreeFits ==
  ASSUME NEW c \in Clerks, NEW r, job'[c] = [Free EXCEPT !.result = r]
  PROVE  Fits(c)'
<1>1. /\ ~Busy(c)' /\ job'[c].pc = "free" /\ Tool(c)' = "none" /\ job'[c].path = NoPath
      /\ job'[c] = [Free EXCEPT !.result = job'[c].result]
  BY DEF Busy, Free, Tool, NoOrder
<1>2. NoPath \notin ScratchNames
  BY ScratchAssumption
<1>3. StandsRight(c)'
  BY <1>1, <1>2 DEF StandsRight, Saving, Editing
<1>4. ScratchIsOwn(c)' /\ IsKept(c)' /\ EditsSteadily(c)' /\ EditsUndisturbed(c)' /\ SteadyIsUndisturbed(c)'
  BY <1>1 DEF ScratchIsOwn, HasScratch, IsKept, EditsSteadily, EditsUndisturbed, SteadyIsUndisturbed
<1>5. QED BY <1>3, <1>4 DEF Fits

\* The files stay as they are, and so does another job.
LEMMA KeptFits ==
  ASSUME NEW c \in Clerks, NEW i \in Clerks \ {c}, Fits(i), job'[i] = job[i],
         \A k \in Clerks \ {i, c} : job'[k] = job[k],
         UNCHANGED <<network, file, disk, scratched>>,
         HasScratch(i) => job'[c].path # job[i].path
  PROVE  Fits(i)'
<1>1. /\ Busy(i)' = Busy(i) /\ Tool(i)' = Tool(i) /\ Source(i)' = Source(i)
      /\ HasScratch(i)' = HasScratch(i) /\ Edited(i)' = Edited(i) /\ ScratchFiles' = ScratchFiles
  BY DEF Busy, Tool, Source, HasScratch, Edited, ScratchFiles
<1>2. StandsRight(i)'
  BY <1>1 DEF Fits, StandsRight
<1>3. ScratchIsOwn(i)'
  BY <1>1 DEF Fits, ScratchIsOwn
<1>4. IsKept(i)' /\ EditsSteadily(i)' /\ EditsUndisturbed(i)' /\ SteadyIsUndisturbed(i)'
  BY <1>1 DEF Fits, IsKept, EditsSteadily, EditsUndisturbed, SteadyIsUndisturbed
<1>5. QED BY <1>2, <1>3, <1>4 DEF Fits

\* A step that only reads: the clerk goes on as j.
LEMMA ReadsStep ==
  ASSUME Inductive, NEW c \in Clerks, NEW j, IsJob(j), Goes(c, j),
         UNCHANGED <<network, file, disk, scratched>>,
         j.path \in ScratchNames => j.path \in {job[c].path, file},
         Fits(c)'
  PROVE  Inductive'
<1>1. JobsFit' /\ job'[c] = j /\ \A i \in Clerks \ {c} : job'[i] = job[i]
  BY GoesEffect DEF Inductive
<1>2. DiskFits'
  BY DEF Inductive, DiskFits, ScratchFiles
<1>3. ASSUME NEW i \in Clerks \ {c}, HasScratch(i) PROVE j.path # job[i].path
  <2>1. /\ job[i].path \in ScratchFiles /\ file # job[i].path /\ job[c].path # job[i].path
    BY <1>3 DEF Inductive, Fits, ScratchIsOwn
  <2>2. job[i].path \in ScratchNames
    <3>1. scratched \in 0 .. Len(Scratch) /\ Len(Scratch) \in Nat
      BY ScratchAssumption DEF Inductive, DiskFits
    <3>2. QED BY <2>1, <3>1 DEF ScratchFiles, ScratchNames
  <2>3. QED BY <2>1, <2>2
<1>4. \A i \in Clerks \ {c} : Fits(i)'
  BY <1>1, <1>3, KeptFits DEF Inductive
<1>5. QED BY <1>1, <1>2, <1>4 DEF Inductive

\* The tool ends, with nothing changed.
LEMMA EndsStep ==
  ASSUME Inductive, NEW c \in Clerks, NEW r, Ends(c, r), UNCHANGED <<network, file, disk, scratched>>
  PROVE  Inductive'
<1> DEFINE j == [Free EXCEPT !.result = r]
<1>1. Goes(c, j) /\ IsJob(j)
  BY FreeIsJob DEF Ends
<1>2. Fits(c)'
  BY <1>1, FreeFits, GoesEffect DEF Inductive
<1>3. j.path = NoPath /\ NoPath \notin ScratchNames
  BY ScratchAssumption DEF Free
<1>4. QED BY <1>1, <1>2, <1>3, ReadsStep

----------------------------------------------------------------------------
\* Saving.

LEMMA CurrentFileStep ==
  ASSUME Inductive, NEW c \in Clerks, CurrentFile(c)
  PROVE  Inductive'
<1>1. CASE file = NoPath
  BY <1>1, EndsStep DEF CurrentFile, Refused, Reads
<1>2. CASE file # NoPath
  <2> DEFINE j == [job[c] EXCEPT !.pc = "folder", !.path = file]
  <2>1. Goes(c, j) /\ UNCHANGED <<network, file, disk, scratched>> /\ job[c].pc = "current"
    BY <1>2 DEF CurrentFile, Reads
  <2>2. IsJob(job[c])
    BY DEF Inductive, JobsFit
  <2>3. Parts(j, "folder", job[c].order, file, job[c].before, job[c].took, job[c].extra,
                 job[c].steady, job[c].undisturbed)
    BY Zenon, <2>2, JobGoesOn
  <2>4. job'[c] = j
    BY <2>1, <2>3, GoesEffect DEF Inductive, Parts
  <2>5. Fits(c) /\ (file \in ScratchNames => file \in ScratchFiles)
    BY DEF Inductive, DiskFits
  <2> HIDE DEF j
  <2>6. StandsRight(c)' /\ Tool(c)' = "save"
    BY <2>1, <2>3, <2>4, <2>5 DEF Parts, Fits, StandsRight, Saving, Editing, Tool, Busy, ScratchFiles, Source
  <2>7. Fits(c)'
    BY <2>3, <2>4, <2>6
      DEF Parts, Fits, ScratchIsOwn, HasScratch, IsKept, EditsSteadily, EditsUndisturbed, SteadyIsUndisturbed
  <2>8. QED BY <2>1, <2>3, <2>7, ReadsStep DEF Parts
<1>3. QED BY <1>1, <1>2

LEMMA FolderStep ==
  ASSUME Inductive, NEW c \in Clerks, Folder(c)
  PROVE  Inductive'
<1>1. CASE job[c].path \in Missing
  BY <1>1, EndsStep DEF Folder, Refused, Reads
<1>2. CASE job[c].path \notin Missing
  <2> DEFINE j == [job[c] EXCEPT !.pc = "write"]
  <2>1. Goes(c, j) /\ UNCHANGED <<network, file, disk, scratched>> /\ job[c].pc = "folder"
    BY <1>2 DEF Folder, To, Reads
  <2>2. IsJob(job[c])
    BY DEF Inductive, JobsFit
  <2>3. Parts(j, "write", job[c].order, job[c].path, job[c].before, job[c].took, job[c].extra,
                 job[c].steady, job[c].undisturbed)
    BY Zenon, <2>2, JobGoesOn
  <2>4. job'[c] = j
    BY <2>1, <2>3, GoesEffect DEF Inductive, Parts
  <2>5. Fits(c)
    BY DEF Inductive
  <2> HIDE DEF j
  <2>6. StandsRight(c)' /\ Tool(c)' # "edit"
    BY <2>1, <2>3, <2>4, <2>5 DEF Parts, Fits, StandsRight, Saving, Editing, Tool, Busy, ScratchFiles, Source
  <2>7. Fits(c)'
    BY <2>3, <2>4, <2>6
      DEF Parts, Fits, ScratchIsOwn, HasScratch, IsKept, EditsSteadily, EditsUndisturbed, SteadyIsUndisturbed
  <2>8. QED BY <2>1, <2>3, <2>7, ReadsStep DEF Parts
<1>3. QED BY <1>1, <1>2

LEMMA WrittenStep ==
  ASSUME Inductive, NEW c \in Clerks, Written(c)
  PROVE  Inductive'
<1>1. CASE job[c].path \notin DOMAIN disk
  BY <1>1, EndsStep DEF Written, Refused, Reads
<1>2. CASE job[c].path \in DOMAIN disk /\ Tool(c) = "save"
  BY <1>2, EndsStep DEF Written, Reads
<1>3. CASE job[c].path \in DOMAIN disk /\ Tool(c) # "save"
  <2> DEFINE j == [job[c] EXCEPT !.pc = "clear"]
  <2>1. Goes(c, j) /\ UNCHANGED <<network, file, disk, scratched>> /\ job[c].pc = "written"
    BY <1>3 DEF Written, To, Reads
  <2>2. IsJob(job[c])
    BY DEF Inductive, JobsFit
  <2>3. Parts(j, "clear", job[c].order, job[c].path, job[c].before, job[c].took, job[c].extra,
                 job[c].steady, job[c].undisturbed)
    BY Zenon, <2>2, JobGoesOn
  <2>4. job'[c] = j
    BY <2>1, <2>3, GoesEffect DEF Inductive, Parts
  <2>5. Fits(c) /\ Tool(c) \in {"open", "new"} /\ job[c].path = job[c].order.keep
    <3>1. Fits(c)
      BY DEF Inductive
    <3>2. Tool(c) \in {"save", "edit", "open", "new"}
      BY <2>1, <3>1, OrdersAssumption DEF Fits, StandsRight, Busy, Tool
    <3>3. QED BY <1>3, <2>1, <3>1, <3>2 DEF Fits, StandsRight, Saving
  <2> HIDE DEF j
  <2>6. StandsRight(c)' /\ Tool(c)' \in {"open", "new"}
    BY <2>1, <2>3, <2>4, <2>5 DEF Parts, Fits, StandsRight, Saving, Editing, Tool, Busy, ScratchFiles, Source
  <2>7. IsKept(c)'
    BY <1>3, <2>1, <2>3, <2>4, <2>5 DEF Parts, Fits, IsKept, Tool
  <2>8. Fits(c)'
    BY <2>6, <2>7 DEF Parts, Fits, ScratchIsOwn, HasScratch, EditsSteadily, EditsUndisturbed, SteadyIsUndisturbed
  <2>9. QED BY <2>1, <2>3, <2>8, ReadsStep DEF Parts
<1>4. QED BY <1>1, <1>2, <1>3

----------------------------------------------------------------------------
\* Opening, and the reads of an edit.

LEMMA ThereStep ==
  ASSUME Inductive, NEW c \in Clerks, There(c)
  PROVE  Inductive'
<1>1. CASE Source(c) \notin DOMAIN disk
  BY <1>1, EndsStep DEF There, Refused, Reads
<1>2. CASE Source(c) \in DOMAIN disk
  <2> DEFINE pc == IF job[c].order.keep = NoPath THEN "clear" ELSE "folder"
             j == [job[c] EXCEPT !.pc = pc]
  <2>1. Goes(c, j) /\ UNCHANGED <<network, file, disk, scratched>> /\ job[c].pc = "there"
    BY <1>2 DEF There, To, Reads
  <2>2. IsJob(job[c])
    BY DEF Inductive, JobsFit
  <2>3. Parts(j, pc, job[c].order, job[c].path, job[c].before, job[c].took, job[c].extra,
                 job[c].steady, job[c].undisturbed)
    BY Zenon, <2>2, JobGoesOn
  <2>4. job'[c] = j
    BY <2>1, <2>3, GoesEffect DEF Inductive, Parts
  <2>5. /\ Fits(c) /\ Tool(c) \in {"open", "edit"} /\ Busy(c) /\ job[c].order \in Orders
        /\ Tool(c) = "edit" => job[c].order.keep = NoPath
    BY <2>1, OrdersAssumption DEF Inductive, Fits, StandsRight, Busy, Tool
  <2> HIDE DEF j
  <2>6. /\ Tool(c)' = Tool(c) /\ job'[c].pc \in {"clear", "folder"} /\ Source(c)' = Source(c)
        /\ job'[c].pc = "folder" => job[c].order.keep # NoPath
        /\ job'[c].pc = "clear" => job[c].order.keep = NoPath
    BY <2>3, <2>4 DEF Parts, Tool, Source
  <2>7. StandsRight(c)'
    BY <1>2, <2>1, <2>3, <2>4, <2>5, <2>6
      DEF Parts, Fits, StandsRight, Saving, Editing, Busy, ScratchFiles, Tool
  <2>8. ScratchIsOwn(c)'
    <3> SUFFICES ASSUME HasScratch(c)' PROVE ScratchIsOwn(c)'
      BY DEF ScratchIsOwn
    <3>1. HasScratch(c)
      BY <2>1, <2>5, <2>6 DEF HasScratch
    <3>2. \A i \in Clerks \ {c} : job'[i] = job[i]
      BY <2>1, <2>3, GoesEffect DEF Inductive, Parts
    <3>3. Edited(c)' = Edited(c) /\ job'[c].path = job[c].path /\ ScratchFiles' = ScratchFiles
      BY <2>1, <2>3, <2>4 DEF Edited, Parts, ScratchFiles
    <3>4. QED BY <2>1, <2>5, <3>1, <3>2, <3>3 DEF Fits, ScratchIsOwn
  <2>9. IsKept(c)' /\ EditsSteadily(c)' /\ EditsUndisturbed(c)' /\ SteadyIsUndisturbed(c)'
    BY <2>1, <2>3, <2>4, <2>5, <2>6
      DEF Parts, Fits, IsKept, EditsSteadily, EditsUndisturbed, SteadyIsUndisturbed, Tool
  <2>10. Fits(c)'
    BY <2>7, <2>8, <2>9 DEF Fits
  <2>11. QED BY <2>1, <2>3, <2>10, ReadsStep DEF Parts
<1>3. QED BY <1>1, <1>2

LEMMA CountStep ==
  ASSUME Inductive, NEW c \in Clerks, Count(c)
  PROVE  Inductive'
<1>1. CASE Tool(c) # "edit"
  BY <1>1, EndsStep DEF Count, Reads
<1>2. CASE Tool(c) = "edit"
  <2> DEFINE j == [job[c] EXCEPT !.pc = "list"]
  <2>1. Goes(c, j) /\ UNCHANGED <<network, file, disk, scratched>> /\ job[c].pc = "count"
    BY <1>2 DEF Count, To, Reads
  <2>2. IsJob(job[c])
    BY DEF Inductive, JobsFit
  <2>3. Parts(j, "list", job[c].order, job[c].path, job[c].before, job[c].took, job[c].extra,
                 job[c].steady, job[c].undisturbed)
    BY Zenon, <2>2, JobGoesOn
  <2>4. job'[c] = j
    BY <2>1, <2>3, GoesEffect DEF Inductive, Parts
  <2>5. Fits(c)
    BY DEF Inductive
  <2> HIDE DEF j
  <2>6. StandsRight(c)'
    BY <1>2, <2>1, <2>3, <2>4, <2>5
      DEF Parts, Fits, StandsRight, Saving, Editing, Busy, ScratchFiles, Tool, Source
  <2>7. ScratchIsOwn(c)' /\ IsKept(c)'
    BY <1>2, <2>3, <2>4 DEF Parts, ScratchIsOwn, HasScratch, IsKept, Tool
  <2>8. EditsSteadily(c)' /\ EditsUndisturbed(c)' /\ SteadyIsUndisturbed(c)'
    BY <1>2, <2>1, <2>3, <2>4, <2>5
      DEF Parts, Fits, EditsSteadily, EditsUndisturbed, SteadyIsUndisturbed, Tool, Edited
  <2>9. Fits(c)'
    BY <2>6, <2>7, <2>8 DEF Fits
  <2>10. QED BY <2>1, <2>3, <2>9, ReadsStep DEF Parts
<1>3. QED BY <1>1, <1>2

LEMMA BeforeStep ==
  ASSUME Inductive, NEW c \in Clerks, Before(c)
  PROVE  Inductive'
<1> DEFINE j == [job[c] EXCEPT !.pc = "bytes", !.before = network.units]
<1>1. Goes(c, j) /\ UNCHANGED <<network, file, disk, scratched>> /\ job[c].pc = "before"
  BY DEF Before, Reads
<1>2. IsJob(job[c])
  BY DEF Inductive, JobsFit
<1>3. Parts(j, "bytes", job[c].order, job[c].path, network.units, job[c].took, job[c].extra,
               job[c].steady, job[c].undisturbed)
  BY Zenon, <1>2, JobGoesOn
<1>4. job'[c] = j
  BY <1>1, <1>3, GoesEffect DEF Inductive, Parts
<1>5. Fits(c)
  BY DEF Inductive
<1> HIDE DEF j
<1>6. StandsRight(c)' /\ Tool(c)' = "edit" /\ Tool(c) = "edit"
  BY <1>1, <1>3, <1>4, <1>5
    DEF Parts, Fits, StandsRight, Saving, Editing, Busy, ScratchFiles, Tool, Source
<1>7. ScratchIsOwn(c)' /\ IsKept(c)'
  BY <1>6, <1>3, <1>4 DEF Parts, ScratchIsOwn, HasScratch, IsKept
<1>8. EditsSteadily(c)' /\ EditsUndisturbed(c)' /\ SteadyIsUndisturbed(c)'
  BY <1>1, <1>3, <1>4, <1>5, <1>6
    DEF Parts, Fits, EditsSteadily, EditsUndisturbed, SteadyIsUndisturbed
<1>9. Fits(c)'
  BY <1>6, <1>7, <1>8 DEF Fits
<1>10. QED BY <1>1, <1>3, <1>9, ReadsStep DEF Parts

LEMMA BytesStep ==
  ASSUME Inductive, NEW c \in Clerks, Bytes(c)
  PROVE  Inductive'
<1> DEFINE j == [job[c] EXCEPT !.pc = "scratch", !.took = network, !.undisturbed = TRUE]
<1>1. Goes(c, j) /\ UNCHANGED <<network, file, disk, scratched>> /\ job[c].pc = "bytes"
  BY DEF Bytes, Reads
<1>2. IsJob(job[c]) /\ IsNetwork(network)
  BY DEF Inductive, JobsFit, DiskFits
<1>3. Parts(j, "scratch", job[c].order, job[c].path, job[c].before, network, job[c].extra,
               job[c].steady, TRUE)
  BY <1>2 DEF IsJob, Parts
<1>4. job'[c] = j
  BY <1>1, <1>3, GoesEffect DEF Inductive, Parts
<1>5. Fits(c)
  BY DEF Inductive
<1> HIDE DEF j
<1>6. StandsRight(c)' /\ Tool(c)' = "edit" /\ Tool(c) = "edit"
  BY <1>1, <1>3, <1>4, <1>5
    DEF Parts, Fits, StandsRight, Saving, Editing, Busy, ScratchFiles, Tool, Source
<1>7. ScratchIsOwn(c)' /\ IsKept(c)'
  BY <1>6, <1>3, <1>4 DEF Parts, ScratchIsOwn, HasScratch, IsKept
<1>8. EditsSteadily(c)' /\ EditsUndisturbed(c)' /\ SteadyIsUndisturbed(c)'
  BY <1>1, <1>3, <1>4, <1>5, <1>6
    DEF Parts, Fits, EditsSteadily, EditsUndisturbed, SteadyIsUndisturbed
<1>9. Fits(c)'
  BY <1>6, <1>7, <1>8 DEF Fits
<1>10. QED BY <1>1, <1>3, <1>9, ReadsStep DEF Parts

LEMMA ListUnitsStep ==
  ASSUME Inductive, NEW c \in Clerks, ListUnits(c)
  PROVE  Inductive'
<1> DEFINE j == [job[c] EXCEPT !.pc = "strip", !.extra = network.units \ job[c].before]
<1>1. Goes(c, j) /\ UNCHANGED <<network, file, disk, scratched>> /\ job[c].pc = "list"
  BY DEF ListUnits, Reads
<1>2. IsJob(job[c])
  BY DEF Inductive, JobsFit
<1>3. Parts(j, "strip", job[c].order, job[c].path, job[c].before, job[c].took,
               network.units \ job[c].before, job[c].steady, job[c].undisturbed)
  BY Zenon, <1>2, JobGoesOn
<1>4. job'[c] = j
  BY <1>1, <1>3, GoesEffect DEF Inductive, Parts
<1>5. Fits(c)
  BY DEF Inductive
<1> HIDE DEF j
<1>6. StandsRight(c)' /\ Tool(c)' = "edit" /\ Tool(c) = "edit"
  BY <1>1, <1>3, <1>4, <1>5
    DEF Parts, Fits, StandsRight, Saving, Editing, Busy, ScratchFiles, Tool, Source
<1>7. ScratchIsOwn(c)' /\ IsKept(c)'
  BY <1>6, <1>3, <1>4 DEF Parts, ScratchIsOwn, HasScratch, IsKept
<1>8. EditsSteadily(c)'
  <2>1. job[c].steady => job[c].before = job[c].took.units /\ job[c].before \subseteq network.units
    BY <1>1, <1>5, <1>6 DEF Fits, EditsSteadily
  <2>2. QED BY <1>1, <1>3, <1>4, <2>1 DEF Parts, EditsSteadily
<1>9. EditsUndisturbed(c)' /\ SteadyIsUndisturbed(c)'
  BY <1>1, <1>3, <1>4, <1>5, <1>6 DEF Parts, Fits, EditsUndisturbed, SteadyIsUndisturbed, Edited
<1>10. Fits(c)'
  BY <1>6, <1>7, <1>8, <1>9 DEF Fits
<1>11. QED BY <1>1, <1>3, <1>10, ReadsStep DEF Parts

LEMMA StartStep ==
  ASSUME Inductive, NEW c \in Clerks, Start(c)
  PROVE  Inductive'
<1>1. PICK o \in Orders :
        Goes(c, [Free EXCEPT !.pc = FirstStep(o), !.order = o,
                             !.path = IF o.tool = "save" THEN o.path ELSE o.keep])
  BY Zenon DEF Start
<1> DEFINE path == IF o.tool = "save" THEN o.path ELSE o.keep
           j == [Free EXCEPT !.pc = FirstStep(o), !.order = o, !.path = path]
<1>2. Goes(c, j) /\ UNCHANGED <<network, file, disk, scratched>>
  BY <1>1 DEF Start
<1>3. Parts(j, FirstStep(o), o, path, {}, Empty, {}, TRUE, TRUE)
  <2>1. IsNetwork(Empty)
    BY DEF IsNetwork, Empty
  <2>2. QED BY <2>1 DEF IsJob, Parts, Free
<1>4. job'[c] = j
  BY <1>2, <1>3, GoesEffect DEF Inductive, Parts
<1> HIDE DEF j
<1>5. /\ o.tool \in {"save", "open", "new", "edit"}
      /\ o.tool \in {"save", "edit"} => o.keep = NoPath
      /\ path \notin ScratchNames
      /\ o.tool \in {"open", "new"} => path = o.keep
  BY OrdersAssumption
<1> HIDE DEF path
<1>6. /\ o.tool = "save" => FirstStep(o) \in {"current", "folder"}
      /\ o.tool = "open" => FirstStep(o) = "there"
      /\ o.tool = "new" => FirstStep(o) \in {"clear", "folder"}
      /\ o.tool = "new" /\ FirstStep(o) = "folder" => o.keep # NoPath
      /\ o.tool = "new" /\ FirstStep(o) = "clear" => o.keep = NoPath
      /\ o.tool = "edit" => FirstStep(o) = "before"
  <2>1. o.tool = "save" => FirstStep(o) = IF o.path = NoPath THEN "current" ELSE "folder"
    BY DEF FirstStep
  <2>2. o.tool = "open" => FirstStep(o) = "there"
    BY DEF FirstStep
  <2>3. o.tool = "new" => FirstStep(o) = IF o.keep = NoPath THEN "clear" ELSE "folder"
    BY DEF FirstStep
  <2>4. o.tool = "edit" => FirstStep(o) = "before"
    BY DEF FirstStep
  <2>5. QED BY <2>1, <2>2, <2>3, <2>4
<1>7. /\ job'[c].pc = FirstStep(o) /\ Tool(c)' = o.tool /\ job'[c].path = path /\ job'[c].order = o
      /\ job'[c].steady /\ job'[c].undisturbed /\ Busy(c)'
  BY <1>3, <1>4, <1>5, <1>6 DEF Parts, Tool, Busy
<1>8. StandsRight(c)'
  BY <1>5, <1>6, <1>7 DEF StandsRight, Saving, Editing
<1>9. ScratchIsOwn(c)' /\ IsKept(c)' /\ EditsSteadily(c)' /\ EditsUndisturbed(c)' /\ SteadyIsUndisturbed(c)'
  BY <1>5, <1>6, <1>7
    DEF ScratchIsOwn, HasScratch, IsKept, EditsSteadily, EditsUndisturbed, SteadyIsUndisturbed
<1>10. Fits(c)'
  BY <1>8, <1>9 DEF Fits
<1>11. QED BY <1>2, <1>3, <1>5, <1>10, ReadsStep DEF Parts

LEMMA LoseStep ==
  ASSUME Inductive, NEW c \in Clerks, Lose(c)
  PROVE  Inductive'
BY EndsStep DEF Lose, Reads

----------------------------------------------------------------------------
\* What changes the network.

LEMMA ScratchFilesAreNamed ==
  ASSUME DiskFits
  PROVE  ScratchFiles \subseteq ScratchNames
<1>1. scratched \in 0 .. Len(Scratch) /\ Len(Scratch) \in Nat
  BY ScratchAssumption DEF DiskFits
<1>2. QED BY <1>1 DEF ScratchFiles, ScratchNames

\* A job that is not the one that changes the network.
LEMMA DisturbedFits ==
  ASSUME Inductive, NEW i \in Clerks, UNCHANGED <<disk, scratched>>,
         job'[i] = IF Busy(i) THEN Disturbed(job[i]) ELSE job[i],
         HasScratch(i) => file' # job[i].path /\ \A k \in Clerks \ {i} : job'[k].path # job[i].path
  PROVE  IsJob(job'[i]) /\ job'[i].path = job[i].path /\ Fits(i)'
<1>1. IsJob(job[i]) /\ Fits(i)
  BY DEF Inductive, JobsFit
<1>2. CASE ~Busy(i)
  <2>1. job'[i] = job[i] /\ job'[i] = [Free EXCEPT !.result = job[i].result]
    BY <1>1, <1>2 DEF Fits, StandsRight
  <2>2. QED BY <1>1, <2>1, FreeFits
<1>3. CASE Busy(i)
  <2> DEFINE j == Disturbed(job[i])
  <2>1. Parts(j, job[i].pc, job[i].order, job[i].path, job[i].before, job[i].took, job[i].extra,
                 FALSE, FALSE)
    BY <1>1 DEF Parts, Disturbed, IsJob
  <2>2. job'[i] = j
    BY <1>3
  <2> HIDE DEF j
  <2>3. /\ Busy(i)' /\ Tool(i)' = Tool(i) /\ Source(i)' = Source(i) /\ job'[i].pc = job[i].pc
        /\ HasScratch(i)' = HasScratch(i) /\ Edited(i)' = Edited(i) /\ ScratchFiles' = ScratchFiles
        /\ job'[i].path = job[i].path /\ job'[i].order = job[i].order /\ IsJob(job'[i])
        /\ ~job'[i].steady /\ ~job'[i].undisturbed
    BY <1>3, <2>1, <2>2 DEF Parts, Busy, Tool, Source, HasScratch, Edited, ScratchFiles
  <2>4. StandsRight(i)'
    BY <1>1, <1>3, <2>3 DEF Fits, StandsRight
  <2>5. ScratchIsOwn(i)'
    BY <1>1, <2>3 DEF Fits, ScratchIsOwn
  <2>6. IsKept(i)' /\ EditsSteadily(i)' /\ EditsUndisturbed(i)' /\ SteadyIsUndisturbed(i)'
    BY <1>1, <2>3 DEF Fits, IsKept, EditsSteadily, EditsUndisturbed, SteadyIsUndisturbed
  <2>7. QED BY <2>3, <2>4, <2>5, <2>6 DEF Fits
<1>4. QED BY <1>2, <1>3

LEMMA ReplacesStep ==
  ASSUME Inductive, NEW c \in Clerks, NEW new, NEW j, IsNetwork(new), IsJob(j),
         Replaces(c, new, j), j.path \in {job[c].path, NoPath},
         file' = NoPath \/ file' \in DOMAIN disk,
         file' \in ScratchNames => file' \in {file, job[c].path},
         job'[c] = j => Fits(c)'
  PROVE  Inductive'
<1> DEFINE lost == [Free EXCEPT !.result = "lost"]
<1>1. PICK after \in {j, lost} :
        job' = [i \in Clerks |-> IF i = c THEN after
                                 ELSE IF Busy(i) THEN Disturbed(job[i]) ELSE job[i]]
  BY Zenon DEF Replaces
<1>2. network' = new /\ UNCHANGED <<disk, scratched>>
  BY DEF Replaces
<1>3. IsJob(lost) /\ lost.path = NoPath
  BY FreeIsJob DEF Free
<1> HIDE DEF lost
<1>4. /\ job'[c] = after /\ IsJob(after) /\ after.path \in {job[c].path, NoPath}
      /\ \A i \in Clerks \ {c} : job'[i] = IF Busy(i) THEN Disturbed(job[i]) ELSE job[i]
  BY <1>1, <1>3
<1>5. ScratchFiles \subseteq ScratchNames /\ NoPath \notin ScratchNames
  BY ScratchFilesAreNamed, ScratchAssumption DEF Inductive
<1>6. \A i \in Clerks : IsJob(job[i])
  BY DEF Inductive, JobsFit
<1>7. \A i \in Clerks \ {c} : job'[i].path = job[i].path
  <2> SUFFICES ASSUME NEW i \in Clerks \ {c} PROVE job'[i].path = job[i].path
    OBVIOUS
  <2>1. Disturbed(job[i]).path = job[i].path
    BY <1>6 DEF Disturbed, IsJob
  <2>2. QED BY <1>4, <2>1
<1>8. ASSUME NEW i \in Clerks \ {c}
      PROVE  IsJob(job'[i]) /\ Fits(i)'
  <2>1. ASSUME HasScratch(i)
        PROVE  file' # job[i].path /\ \A k \in Clerks \ {i} : job'[k].path # job[i].path
    <3>1. /\ job[i].path \in ScratchFiles /\ file # job[i].path
          /\ \A k \in Clerks \ {i} : job[k].path # job[i].path
      BY <2>1 DEF Inductive, Fits, ScratchIsOwn
    <3>2. job[i].path \in ScratchNames /\ job[i].path # NoPath
      BY <1>5, <3>1
    <3>3. QED BY <1>4, <1>7, <3>1, <3>2
  <2>2. job'[i] = IF Busy(i) THEN Disturbed(job[i]) ELSE job[i]
    BY <1>4
  <2>3. QED BY <1>2, <2>1, <2>2, DisturbedFits
<1>9. Fits(c)'
  <2>1. CASE after = j
    BY <1>4, <2>1
  <2>2. CASE after = lost
    BY <1>4, <2>2, FreeFits DEF lost
  <2>3. QED BY <2>1, <2>2, <1>1
<1>10. JobsFit'
  <2>1. job' = [k \in Clerks |-> job'[k]]
    BY <1>1
  <2>2. QED BY <1>4, <1>8, <2>1 DEF JobsFit
<1>11. DiskFits'
  <2>1. file' \in ScratchNames => file' \in ScratchFiles
    BY DEF Inductive, Fits, StandsRight, DiskFits
  <2>2. QED BY <1>2, <2>1 DEF Inductive, DiskFits, ScratchFiles
<1>12. QED BY <1>8, <1>9, <1>10, <1>11 DEF Inductive

LEMMA BuildStep ==
  ASSUME Inductive, Build
  PROVE  Inductive'
<1>1. /\ job' = [k \in Clerks |-> IF Busy(k) THEN Disturbed(job[k]) ELSE job[k]]
      /\ UNCHANGED <<file, disk, scratched>>
  BY DEF Build
<1>2. IsNetwork(network')
  <2>1. PICK w \in Works : network' \in {[network EXCEPT !.work = @ \cup {w}],
                                         [network EXCEPT !.work = @ \ {w}]}
    BY Zenon DEF Build
  <2>2. IsNetwork(network)
    BY DEF Inductive, DiskFits
  <2>3. QED BY <2>1, <2>2 DEF IsNetwork
<1>3. \A i \in Clerks : job'[i].path = job[i].path
  <2> SUFFICES ASSUME NEW i \in Clerks PROVE job'[i].path = job[i].path
    OBVIOUS
  <2>1. Disturbed(job[i]).path = job[i].path
    BY DEF Disturbed, IsJob, Inductive, JobsFit
  <2>2. QED BY <1>1, <2>1
<1>4. ASSUME NEW i \in Clerks PROVE IsJob(job'[i]) /\ Fits(i)'
  <2>1. HasScratch(i) => file' # job[i].path /\ \A k \in Clerks \ {i} : job'[k].path # job[i].path
    BY <1>1, <1>3 DEF Inductive, Fits, ScratchIsOwn
  <2>2. job'[i] = IF Busy(i) THEN Disturbed(job[i]) ELSE job[i]
    BY <1>1
  <2>3. QED BY <1>1, <2>1, <2>2, DisturbedFits
<1>5. JobsFit'
  <2>1. job' = [k \in Clerks |-> job'[k]]
    BY <1>1
  <2>2. QED BY <1>4, <2>1 DEF JobsFit
<1>6. DiskFits'
  BY <1>1, <1>2 DEF Inductive, DiskFits, ScratchFiles
<1>7. QED BY <1>4, <1>5, <1>6 DEF Inductive

LEMMA ClearStep ==
  ASSUME Inductive, NEW c \in Clerks, Clear(c)
  PROVE  Inductive'
<1>1. CASE Refused(c)
  BY <1>1, EndsStep DEF Refused, Reads
<1>2. CASE ~Refused(c)
  <2> DEFINE j == IF Tool(c) = "new" THEN [Free EXCEPT !.result = "done"]
                  ELSE [job[c] EXCEPT !.pc = "load"]
  <2>1. job[c].pc = "clear" /\ file' = NoPath /\ Replaces(c, Empty, j)
    BY <1>2 DEF Clear
  <2>2. IsJob(job[c]) /\ Fits(c) /\ IsNetwork(Empty) /\ NoPath \notin ScratchNames
    BY ScratchAssumption DEF Inductive, JobsFit, IsNetwork, Empty
  <2>3. CASE Tool(c) = "new"
    <3>1. j = [Free EXCEPT !.result = "done"] /\ IsJob(j) /\ j.path = NoPath
      BY <2>3, FreeIsJob DEF Free
    <3>2. job'[c] = j => Fits(c)'
      BY <3>1, FreeFits
    <3>3. QED BY <2>1, <2>2, <3>1, <3>2, ReplacesStep
  <2>4. CASE Tool(c) # "new"
    <3>1. Parts(j, "load", job[c].order, job[c].path, job[c].before, job[c].took, job[c].extra,
                   job[c].steady, job[c].undisturbed)
      <4>1. j = [job[c] EXCEPT !.pc = "load"]
        BY <2>4
      <4> HIDE DEF j
      <4>2. QED BY Zenon, <2>2, <4>1, JobGoesOn
    <3>2. ASSUME job'[c] = j PROVE Fits(c)'
      <4>1. /\ job'[c].pc = "load" /\ Tool(c)' = Tool(c) /\ Source(c)' = Source(c) /\ Busy(c)'
            /\ job'[c].path = job[c].path /\ job'[c].order = job[c].order /\ Edited(c)' = Edited(c)
            /\ UNCHANGED <<disk, scratched>> /\ ScratchFiles' = ScratchFiles
        BY <2>1, <3>1, <3>2 DEF Parts, Tool, Source, Busy, Edited, Replaces, ScratchFiles
      <4>2. Tool(c) \in {"open", "edit"}
        BY <2>1, <2>2, <2>4 DEF Fits, StandsRight
      <4>3. StandsRight(c)'
        BY <2>1, <2>2, <4>1, <4>2 DEF Fits, StandsRight, Saving, Editing, Busy
      <4>4. ScratchIsOwn(c)'
        <5> SUFFICES ASSUME Tool(c) = "edit" PROVE ScratchIsOwn(c)'
          BY <4>1 DEF ScratchIsOwn, HasScratch
        <5>1. /\ job[c].path \in ScratchFiles /\ disk[job[c].path] = Edited(c)
              /\ \A i \in Clerks \ {c} : job[i].path # job[c].path
          BY <2>1, <2>2 DEF Fits, ScratchIsOwn, HasScratch
        <5>2. job[c].path # NoPath
          BY <2>2, <5>1, ScratchFilesAreNamed DEF Inductive
        <5>3. ASSUME NEW i \in Clerks \ {c} PROVE job'[i].path = job[i].path
          <6>1. Disturbed(job[i]).path = job[i].path
            BY DEF Disturbed, IsJob, Inductive, JobsFit
          <6>2. QED BY <2>1, <6>1 DEF Replaces
        <5>4. QED BY <2>1, <4>1, <5>1, <5>2, <5>3 DEF ScratchIsOwn
      <4>5. IsKept(c)'
        BY <4>1 DEF IsKept
      <4>6. EditsSteadily(c)' /\ EditsUndisturbed(c)' /\ SteadyIsUndisturbed(c)'
        BY <2>1, <2>2, <3>1, <3>2, <4>1
          DEF Parts, Fits, EditsSteadily, EditsUndisturbed, SteadyIsUndisturbed
      <4>7. QED BY <4>3, <4>4, <4>5, <4>6 DEF Fits
    <3> HIDE DEF j
    <3>3. IsJob(j) /\ j.path = job[c].path
      BY <3>1 DEF Parts
    <3>4. QED BY <2>1, <2>2, <3>2, <3>3, ReplacesStep
  <2>5. QED BY <2>3, <2>4
<1>3. QED BY <1>1, <1>2

LEMMA LoadStep ==
  ASSUME Inductive, NEW c \in Clerks, Load(c)
  PROVE  Inductive'
<1>1. CASE Refused(c)
  BY <1>1, EndsStep DEF Refused, Reads
<1>2. CASE ~Refused(c)
  <2> DEFINE j == [job[c] EXCEPT !.pc = "count"]
             new == Opened(disk[Source(c)])
  <2>1. job[c].pc = "load" /\ file' = Source(c) /\ Replaces(c, new, j)
    BY <1>2 DEF Load
  <2>2. IsJob(job[c]) /\ Fits(c) /\ Tool(c) \in {"open", "edit"} /\ job[c].order \in Orders
    BY <2>1 DEF Inductive, JobsFit, Fits, StandsRight, Busy
  <2>3. Tool(c) = "edit" =>
          /\ Source(c) = job[c].path /\ job[c].path \in ScratchFiles /\ disk[job[c].path] = Edited(c)
    BY <2>1, <2>2 DEF Fits, ScratchIsOwn, HasScratch, Source
  <2>4. Source(c) \in DOMAIN disk
    BY <2>1, <2>2, <2>3 DEF Fits, StandsRight, Inductive, DiskFits
  <2>5. IsNetwork(disk[Source(c)])
    BY <2>4 DEF Inductive, DiskFits
  <2>6. /\ IsNetwork(new) /\ new.work = disk[Source(c)].work
        /\ disk[Source(c)].units \subseteq new.units
    BY <2>5 DEF IsNetwork, Opened
  <2>7. Source(c) \in ScratchNames => Source(c) = job[c].path
    BY <2>2, OrdersAssumption DEF Source
  <2> HIDE DEF new
  <2>8. Parts(j, "count", job[c].order, job[c].path, job[c].before, job[c].took, job[c].extra,
                 job[c].steady, job[c].undisturbed)
    BY Zenon, <2>2, JobGoesOn
  <2>9. network' = new /\ UNCHANGED <<disk, scratched>>
    BY <2>1 DEF Replaces
  <2> HIDE DEF j
  <2>10. ASSUME job'[c] = j PROVE Fits(c)'
    <3>1. /\ job'[c].pc = "count" /\ Tool(c)' = Tool(c) /\ Source(c)' = Source(c) /\ Busy(c)'
          /\ job'[c].path = job[c].path /\ job'[c].order = job[c].order /\ Edited(c)' = Edited(c)
          /\ ScratchFiles' = ScratchFiles
      BY <2>8, <2>9, <2>10 DEF Parts, Tool, Source, Busy, Edited, ScratchFiles
    <3>2. StandsRight(c)'
      BY <2>1, <2>2, <3>1 DEF Fits, StandsRight, Saving, Editing
    <3>3. ScratchIsOwn(c)' /\ IsKept(c)'
      BY <3>1 DEF ScratchIsOwn, HasScratch, IsKept
    <3>4. EditsSteadily(c)'
      <4> SUFFICES ASSUME Tool(c) = "edit", job[c].steady
                   PROVE  job[c].before = job[c].took.units /\ job[c].before \subseteq new.units
        BY <2>8, <2>9, <2>10, <3>1 DEF Parts, EditsSteadily
      <4>1. job[c].before = job[c].took.units
        BY <2>1, <2>2 DEF Fits, EditsSteadily
      <4>2. Edited(c).units = job[c].took.units
        BY <2>2 DEF IsJob, IsNetwork, Edited
      <4>3. QED BY <2>3, <2>6, <4>1, <4>2
    <3>5. EditsUndisturbed(c)'
      BY <2>3, <2>6, <2>9, <3>1 DEF EditsUndisturbed
    <3>6. SteadyIsUndisturbed(c)'
      BY <2>2, <2>8, <2>10, <3>1 DEF Parts, Fits, SteadyIsUndisturbed
    <3>7. QED BY <3>2, <3>3, <3>4, <3>5, <3>6 DEF Fits
  <2>11. QED BY <2>1, <2>4, <2>6, <2>7, <2>8, <2>10, ReplacesStep DEF Parts
<1>3. QED BY <1>1, <1>2

LEMMA StripStep ==
  ASSUME Inductive, NEW c \in Clerks, Strip(c)
  PROVE  Inductive'
<1>1. CASE job[c].extra = {}
  BY <1>1, EndsStep DEF Strip, Reads
<1>2. CASE job[c].extra # {}
  <2>1. job[c].pc = "strip" /\ IsJob(job[c]) /\ Fits(c) /\ IsNetwork(network)
    BY DEF Strip, Inductive, JobsFit, DiskFits
  <2>2. PICK u \in job[c].extra :
          IF u \notin network.units THEN Refused(c)
          ELSE /\ Replaces(c, [network EXCEPT !.units = @ \ {u}],
                           [job[c] EXCEPT !.extra = @ \ {u}])
               /\ UNCHANGED file
    BY Zenon, <1>2 DEF Strip
  <2>3. CASE u \notin network.units
    BY <2>2, <2>3, EndsStep DEF Refused, Reads
  <2>4. CASE u \in network.units
    <3> DEFINE rest == job[c].extra \ {u}
               j == [job[c] EXCEPT !.extra = rest]
               new == [network EXCEPT !.units = network.units \ {u}]
    <3>1. Replaces(c, new, j) /\ file' = file
      BY <2>2, <2>4
    <3>2. IsNetwork(new) /\ new.work = network.work /\ new.units = network.units \ {u}
      BY <2>1 DEF IsNetwork
    <3>3. Parts(j, "strip", job[c].order, job[c].path, job[c].before, job[c].took, rest,
                   job[c].steady, job[c].undisturbed)
      BY Zenon, <2>1, JobGoesOn
    <3>4. network' = new /\ UNCHANGED <<disk, scratched>>
      BY <3>1 DEF Replaces
    <3> HIDE DEF j, new
    <3>5. ASSUME job'[c] = j PROVE Fits(c)'
      <4>1. /\ job'[c].pc = "strip" /\ Tool(c)' = Tool(c) /\ Source(c)' = Source(c) /\ Busy(c)'
            /\ job'[c].path = job[c].path /\ job'[c].order = job[c].order /\ Edited(c)' = Edited(c)
            /\ ScratchFiles' = ScratchFiles /\ Busy(c) /\ Tool(c) = "edit"
        BY <2>1, <3>3, <3>4, <3>5
          DEF Parts, Tool, Source, Busy, Edited, ScratchFiles, Fits, StandsRight, Editing
      <4>2. StandsRight(c)'
        BY <2>1, <4>1 DEF Fits, StandsRight, Saving, Editing
      <4>3. ScratchIsOwn(c)' /\ IsKept(c)'
        BY <4>1 DEF ScratchIsOwn, HasScratch, IsKept
      <4>4. EditsSteadily(c)'
        <5> SUFFICES ASSUME job[c].steady
                     PROVE  /\ job[c].before = job[c].took.units
                            /\ new.units = job[c].before \cup rest /\ job[c].before \cap rest = {}
          BY <3>3, <3>4, <3>5, <4>1 DEF Parts, EditsSteadily
        <5>1. /\ job[c].before = job[c].took.units
              /\ network.units = job[c].before \cup job[c].extra
              /\ job[c].before \cap job[c].extra = {}
          BY <2>1, <4>1 DEF Fits, EditsSteadily
        <5>2. QED BY <3>2, <5>1
      <4>5. EditsUndisturbed(c)' /\ SteadyIsUndisturbed(c)'
        BY <2>1, <3>2, <3>3, <3>4, <3>5, <4>1
          DEF Parts, Fits, EditsUndisturbed, SteadyIsUndisturbed
      <4>6. QED BY <4>2, <4>3, <4>4, <4>5 DEF Fits
    <3>6. /\ file' = NoPath \/ file' \in DOMAIN disk
          /\ file' \in ScratchNames => file' \in {file, job[c].path}
      BY <3>1 DEF Inductive, DiskFits
    <3>7. QED BY <3>1, <3>2, <3>3, <3>5, <3>6, ReplacesStep DEF Parts
  <2>5. QED BY <2>3, <2>4
<1>3. QED BY <1>1, <1>2

----------------------------------------------------------------------------
\* What writes to the disk.

LEMMA WriteStep ==
  ASSUME Inductive, NEW c \in Clerks, Write(c)
  PROVE  Inductive'
<1> DEFINE path == job[c].path
           j == [job[c] EXCEPT !.pc = "written", !.undisturbed = TRUE]
           lost == [Free EXCEPT !.result = "lost"]
<1>1. /\ job[c].pc = "write" /\ UNCHANGED <<network, scratched>>
      /\ IF path \in Unwritable THEN UNCHANGED <<disk, file>>
         ELSE disk' = Stored(path, network) /\ file' = path
      /\ Goes(c, j) \/ Goes(c, lost)
  BY DEF Write, Ends
<1>2. IsJob(job[c]) /\ Fits(c) /\ IsNetwork(network)
  BY DEF Inductive, JobsFit, DiskFits
<1>3. Parts(j, "written", job[c].order, job[c].path, job[c].before, job[c].took, job[c].extra,
               job[c].steady, TRUE)
  BY <1>2 DEF Parts, IsJob
<1>4. IsJob(lost) /\ lost.path = NoPath
  BY FreeIsJob DEF Free
<1>5. PICK after \in {j, lost} : Goes(c, after)
  BY <1>1
<1>6. path = job[c].path
  OBVIOUS
<1> HIDE DEF j, lost, path
<1>7. /\ JobsFit' /\ job'[c] = after /\ \A i \in Clerks \ {c} : job'[i] = job[i]
      /\ after.path \in {path, NoPath}
  BY <1>3, <1>4, <1>5, <1>6, GoesEffect DEF Inductive, Parts
<1>8. /\ DOMAIN disk \subseteq DOMAIN disk' /\ DOMAIN disk' \subseteq DOMAIN disk \cup {path}
      /\ file' \in {file, path}
      /\ file' = path => path \in DOMAIN disk' \/ file = path
      /\ \A p \in DOMAIN disk : p # path => disk'[p] = disk[p]
      /\ path \in DOMAIN disk' /\ path \notin Unwritable => disk'[path] = network
      /\ path \in Unwritable => disk' = disk
  <2>1. CASE path \in Unwritable
    BY <1>1, <2>1 DEF Inductive, DiskFits
  <2>2. CASE path \notin Unwritable
    BY <1>1, <2>2 DEF Stored
  <2>3. QED BY <2>1, <2>2
<1>9. ScratchFiles' = ScratchFiles /\ (path \in ScratchNames => path \in ScratchFiles)
  BY <1>1, <1>2, <1>6 DEF ScratchFiles, Fits, StandsRight
<1>10. DiskFits'
  <2>1. ASSUME NEW p \in DOMAIN disk' PROVE IsNetwork(disk'[p])
    <3>1. CASE p # path \/ path \in Unwritable
      <4>1. p \in DOMAIN disk /\ disk'[p] = disk[p]
        BY <1>8, <3>1
      <4>2. QED BY <4>1 DEF Inductive, DiskFits
    <3>2. CASE p = path /\ path \notin Unwritable
      BY <1>2, <1>8, <3>2
    <3>3. QED BY <3>1, <3>2
  <2>2. file' = NoPath \/ file' \in DOMAIN disk'
    <3>1. file = NoPath \/ file \in DOMAIN disk
      BY DEF Inductive, DiskFits
    <3>2. QED BY <1>8, <3>1
  <2>3. file' \in ScratchNames => file' \in ScratchFiles
    BY <1>8, <1>9 DEF Inductive, DiskFits
  <2>4. DOMAIN disk' \cap ScratchNames = ScratchFiles
    BY <1>8, <1>9 DEF Inductive, DiskFits
  <2>5. QED BY <1>1, <1>2, <1>9, <2>1, <2>2, <2>3, <2>4 DEF Inductive, DiskFits
<1>11. ASSUME NEW i \in Clerks \ {c} PROVE Fits(i)'
  <2>1. Fits(i) /\ job'[i] = job[i]
    BY <1>7 DEF Inductive
  <2>2. /\ Busy(i)' = Busy(i) /\ Tool(i)' = Tool(i) /\ Source(i)' = Source(i)
        /\ HasScratch(i)' = HasScratch(i) /\ Edited(i)' = Edited(i)
    BY <2>1 DEF Busy, Tool, Source, HasScratch, Edited
  <2>3. StandsRight(i)'
    BY <1>8, <1>9, <2>1, <2>2 DEF Fits, StandsRight
  <2>4. ScratchIsOwn(i)'
    <3> SUFFICES ASSUME HasScratch(i) PROVE ScratchIsOwn(i)'
      BY <2>2 DEF ScratchIsOwn
    <3>1. /\ job[i].path \in ScratchFiles /\ disk[job[i].path] = Edited(i) /\ file # job[i].path
          /\ \A k \in Clerks \ {i} : job[k].path # job[i].path
      BY <2>1 DEF Fits, ScratchIsOwn
    <3>2. job[i].path \in DOMAIN disk /\ job[i].path \in ScratchNames /\ job[i].path # NoPath
      BY <3>1, ScratchFilesAreNamed, ScratchAssumption DEF Inductive, DiskFits
    <3>3. disk'[job[i].path] = Edited(i) /\ file' # job[i].path
      <4>1. path # job[i].path
        BY <1>6, <3>1
      <4>2. QED BY <1>8, <3>1, <3>2, <4>1
    <3>4. \A k \in Clerks \ {i} : job'[k].path # job[i].path
      BY <1>7, <1>6, <3>1, <3>2
    <3>5. QED BY <1>9, <2>1, <2>2, <3>1, <3>3, <3>4 DEF ScratchIsOwn
  <2>5. IsKept(i)'
    <3> SUFFICES ASSUME Tool(i) \in {"open", "new"}, job[i].order.keep # NoPath PROVE IsKept(i)'
      BY <2>1, <2>2 DEF IsKept
    <3>1. /\ (/\ job[i].pc \in {"written", "clear"} /\ job[i].undisturbed
              /\ job[i].order.keep \in DOMAIN disk \ Unwritable)
               => disk[job[i].order.keep] = network
          /\ job[i].pc = "clear" => job[i].order.keep \in DOMAIN disk
      BY <2>1 DEF Fits, IsKept
    <3>2. QED BY <1>1, <1>8, <2>1, <3>1 DEF IsKept
  <2>6. EditsSteadily(i)' /\ EditsUndisturbed(i)' /\ SteadyIsUndisturbed(i)'
    BY <1>1, <2>1, <2>2 DEF Fits, EditsSteadily, EditsUndisturbed, SteadyIsUndisturbed
  <2>7. QED BY <2>3, <2>4, <2>5, <2>6 DEF Fits
<1>12. Fits(c)'
  <2>1. CASE after = lost
    BY <1>7, <2>1, FreeFits DEF lost
  <2>2. CASE after = j
    <3>1. /\ job'[c].pc = "written" /\ Tool(c)' = Tool(c) /\ Source(c)' = Source(c) /\ Busy(c)'
          /\ job'[c].path = path /\ job'[c].order = job[c].order /\ Busy(c)
      BY <1>1, <1>3, <1>7, <1>6, <2>2 DEF Parts, Tool, Source, Busy
    <3>2. StandsRight(c)' /\ Tool(c) # "edit"
      BY <1>1, <1>2, <1>8, <1>9, <1>6, <3>1 DEF Fits, StandsRight, Saving, Editing
    <3>3. IsKept(c)'
      <4>1. Tool(c) \in {"open", "new"} => path = job[c].order.keep
        BY <1>1, <1>2, <1>6 DEF Fits, StandsRight, Saving
      <4>2. QED BY <1>1, <1>8, <3>1, <4>1 DEF IsKept
    <3>4. QED BY <3>1, <3>2, <3>3
      DEF Fits, ScratchIsOwn, HasScratch, EditsSteadily, EditsUndisturbed, SteadyIsUndisturbed
  <2>3. QED BY <2>1, <2>2, <1>5
<1>13. QED BY <1>7, <1>10, <1>11, <1>12 DEF Inductive

LEMMA WriteScratchStep ==
  ASSUME Inductive, NEW c \in Clerks, WriteScratch(c)
  PROVE  Inductive'
<1>1. CASE Refused(c)
  BY <1>1, EndsStep DEF Refused, Reads
<1>2. CASE ~Refused(c)
  <2> DEFINE s == Scratch[scratched + 1]
             j == [job[c] EXCEPT !.pc = "there", !.path = s]
  <2>1. /\ job[c].pc = "scratch" /\ scratched < Len(Scratch) /\ disk' = Stored(s, Edited(c))
        /\ Goes(c, j) /\ scratched' = scratched + 1 /\ UNCHANGED <<network, file>>
    BY <1>2 DEF WriteScratch
  <2>2. IsJob(job[c]) /\ Fits(c) /\ IsNetwork(Edited(c))
    <3>1. IsJob(job[c]) /\ Fits(c)
      BY DEF Inductive, JobsFit
    <3>2. IsNetwork(job[c].took)
      BY <3>1 DEF IsJob
    <3>3. IsNetwork(Edited(c))
      BY <3>2 DEF IsNetwork, Edited
    <3>4. QED BY <3>1, <3>3
  <2>3. scratched \in Nat /\ Len(Scratch) \in Nat /\ scratched <= Len(Scratch)
    BY ScratchAssumption DEF Inductive, DiskFits
  <2>4. /\ s \in ScratchNames /\ s \notin ScratchFiles /\ ScratchFiles' = ScratchFiles \cup {s}
        /\ s # NoPath
    <3>1. s \in ScratchNames /\ scratched + 1 \in 1 .. Len(Scratch)
      BY <2>1, <2>3 DEF ScratchNames
    <3>2. s \notin ScratchFiles
      BY <2>1, <2>3, <3>1, ScratchAssumption DEF ScratchFiles
    <3>3. ScratchFiles' = ScratchFiles \cup {s}
      BY <2>1, <2>3 DEF ScratchFiles
    <3>4. QED BY <3>1, <3>2, <3>3, ScratchAssumption
  <2> HIDE DEF s
  <2>5. Parts(j, "there", job[c].order, s, job[c].before, job[c].took, job[c].extra,
                 job[c].steady, job[c].undisturbed)
    BY Zenon, <2>2, JobGoesOn
  <2>6. JobsFit' /\ job'[c] = j /\ \A i \in Clerks \ {c} : job'[i] = job[i]
    BY <2>1, <2>5, GoesEffect DEF Inductive, Parts
  <2> HIDE DEF j
  <2>7. /\ DOMAIN disk' = DOMAIN disk \cup {s}
        /\ \A p \in DOMAIN disk : p # s => disk'[p] = disk[p]
        /\ disk'[s] = Edited(c)
    BY <2>1 DEF Stored
  <2>8. /\ s \notin DOMAIN disk /\ file # s
        /\ \A i \in Clerks : job[i].path # s
    BY <2>4 DEF Inductive, DiskFits, Fits, StandsRight
  <2>9. DiskFits'
    <3>1. \A p \in DOMAIN disk' : IsNetwork(disk'[p])
      BY <2>2, <2>7 DEF Inductive, DiskFits
    <3>2. DOMAIN disk' \cap ScratchNames = ScratchFiles'
      BY <2>4, <2>7 DEF Inductive, DiskFits
    <3>3. scratched' \in 0 .. Len(Scratch)
      BY <2>1, <2>3
    <3>4. /\ file' = NoPath \/ file' \in DOMAIN disk'
          /\ file' \in ScratchNames => file' \in ScratchFiles'
      BY <2>1, <2>4, <2>7 DEF Inductive, DiskFits
    <3>5. IsNetwork(network')
      BY <2>1 DEF Inductive, DiskFits
    <3>6. QED BY <2>7, <3>1, <3>2, <3>3, <3>4, <3>5 DEF DiskFits
  <2>10. ASSUME NEW i \in Clerks \ {c} PROVE Fits(i)'
    <3>1. Fits(i) /\ job'[i] = job[i]
      BY <2>6 DEF Inductive
    <3>2. /\ Busy(i)' = Busy(i) /\ Tool(i)' = Tool(i) /\ Source(i)' = Source(i)
          /\ HasScratch(i)' = HasScratch(i) /\ Edited(i)' = Edited(i)
      BY <3>1 DEF Busy, Tool, Source, HasScratch, Edited
    <3>3. StandsRight(i)'
      BY <2>4, <2>7, <3>1, <3>2 DEF Fits, StandsRight
    <3>4. ScratchIsOwn(i)'
      <4> SUFFICES ASSUME HasScratch(i) PROVE ScratchIsOwn(i)'
        BY <3>2 DEF ScratchIsOwn
      <4>1. /\ job[i].path \in ScratchFiles /\ disk[job[i].path] = Edited(i) /\ file # job[i].path
            /\ \A k \in Clerks \ {i} : job[k].path # job[i].path
        BY <3>1 DEF Fits, ScratchIsOwn
      <4>2. job[i].path \in DOMAIN disk
        BY <4>1 DEF Inductive, DiskFits
      <4>3. disk'[job[i].path] = Edited(i) /\ file' # job[i].path
        BY <2>1, <2>7, <2>8, <4>1, <4>2
      <4>4. \A k \in Clerks \ {i} : job'[k].path # job[i].path
        <5>1. job'[c].path = s
          BY <2>5, <2>6 DEF Parts
        <5>2. QED BY <2>6, <2>8, <4>1, <5>1
      <4>5. QED BY <2>4, <3>1, <3>2, <4>1, <4>3, <4>4 DEF ScratchIsOwn
    <3>5. IsKept(i)'
      <4> SUFFICES ASSUME Tool(i) \in {"open", "new"}, job[i].order.keep # NoPath PROVE IsKept(i)'
        BY <3>1, <3>2 DEF IsKept
      <4>1. job[i].order \in Orders
        BY <3>1 DEF Fits, StandsRight, Free, NoOrder, Tool, Busy
      <4>2. job[i].order.keep # s
        BY <2>4, <4>1, OrdersAssumption
      <4>3. QED BY <2>1, <2>7, <3>1, <4>2 DEF Fits, IsKept
    <3>6. EditsSteadily(i)' /\ EditsUndisturbed(i)' /\ SteadyIsUndisturbed(i)'
      BY <2>1, <3>1, <3>2 DEF Fits, EditsSteadily, EditsUndisturbed, SteadyIsUndisturbed
    <3>7. QED BY <3>3, <3>4, <3>5, <3>6 DEF Fits
  <2>11. Fits(c)'
    <3>1. /\ job'[c].pc = "there" /\ Tool(c)' = Tool(c) /\ Busy(c)' /\ Edited(c)' = Edited(c)
          /\ job'[c].path = s /\ job'[c].order = job[c].order /\ Busy(c) /\ Tool(c) = "edit"
      BY <2>1, <2>2, <2>5, <2>6 DEF Parts, Tool, Busy, Edited, Fits, StandsRight, Editing
    <3>2. StandsRight(c)'
      BY <2>2, <2>4, <3>1 DEF Fits, StandsRight, Saving, Editing
    <3>3. ScratchIsOwn(c)'
      BY <2>1, <2>4, <2>6, <2>7, <2>8, <3>1 DEF ScratchIsOwn
    <3>4. IsKept(c)'
      BY <3>1 DEF IsKept
    <3>5. EditsSteadily(c)' /\ EditsUndisturbed(c)' /\ SteadyIsUndisturbed(c)'
      BY <2>1, <2>2, <2>5, <2>6, <3>1
        DEF Parts, Fits, EditsSteadily, EditsUndisturbed, SteadyIsUndisturbed
    <3>6. QED BY <3>2, <3>3, <3>4, <3>5 DEF Fits
  <2>12. QED BY <2>6, <2>9, <2>10, <2>11 DEF Inductive
<1>3. QED BY <1>1, <1>2

----------------------------------------------------------------------------
\* The theorems.

LEMMA InitHolds ==
  ASSUME Init
  PROVE  Inductive
<1>1. ScratchFiles = {}
  BY DEF Init, ScratchFiles
<1>2. IsNetwork(Empty) /\ Len(Scratch) \in Nat
  BY ScratchAssumption DEF IsNetwork, Empty
<1>3. DiskFits
  BY <1>1, <1>2, ScratchAssumption, LibraryAssumption DEF Init, DiskFits
<1>4. Free.result = "none" /\ Free = [Free EXCEPT !.result = Free.result]
  BY DEF Free
<1>5. JobsFit
  <2>1. IsJob(Free)
    BY <1>4, FreeIsJob
  <2>2. QED BY <2>1 DEF Init, JobsFit
<1>6. ASSUME NEW k \in Clerks PROVE Fits(k)
  <2>1. job[k] = Free
    BY DEF Init
  <2>2. ~Busy(k) /\ job[k].pc = "free" /\ Tool(k) = "none" /\ job[k].path = NoPath
    BY <2>1 DEF Busy, Free, Tool, NoOrder
  <2>3. job[k] = [Free EXCEPT !.result = job[k].result]
    BY <1>4, <2>1
  <2>4. StandsRight(k)
    BY <2>2, <2>3, ScratchAssumption DEF StandsRight, Saving, Editing
  <2>5. ScratchIsOwn(k) /\ IsKept(k) /\ EditsSteadily(k) /\ EditsUndisturbed(k) /\ SteadyIsUndisturbed(k)
    BY <2>2 DEF ScratchIsOwn, HasScratch, IsKept, EditsSteadily, EditsUndisturbed, SteadyIsUndisturbed
  <2>6. QED BY <2>4, <2>5 DEF Fits
<1>7. QED BY <1>3, <1>5, <1>6 DEF Inductive

LEMMA NextHolds ==
  ASSUME Inductive, [Next]_vars
  PROVE  Inductive'
<1>1. CASE Build
  BY <1>1, BuildStep
<1>2. ASSUME NEW c \in Clerks, Start(c) \/ Step(c) PROVE Inductive'
  <2>1. CASE Start(c)
    BY <2>1, StartStep
  <2>2. CASE CurrentFile(c)
    BY <2>2, CurrentFileStep
  <2>3. CASE Folder(c)
    BY <2>3, FolderStep
  <2>4. CASE Write(c)
    BY <2>4, WriteStep
  <2>5. CASE Written(c)
    BY <2>5, WrittenStep
  <2>6. CASE There(c)
    BY <2>6, ThereStep
  <2>7. CASE Clear(c)
    BY <2>7, ClearStep
  <2>8. CASE Load(c)
    BY <2>8, LoadStep
  <2>9. CASE Count(c)
    BY <2>9, CountStep
  <2>10. CASE Before(c)
    BY <2>10, BeforeStep
  <2>11. CASE Bytes(c)
    BY <2>11, BytesStep
  <2>12. CASE WriteScratch(c)
    BY <2>12, WriteScratchStep
  <2>13. CASE ListUnits(c)
    BY <2>13, ListUnitsStep
  <2>14. CASE Strip(c)
    BY <2>14, StripStep
  <2>15. CASE Lose(c)
    BY <2>15, LoseStep
  <2>16. QED
    BY Zenon, <1>2, <2>1, <2>2, <2>3, <2>4, <2>5, <2>6, <2>7, <2>8, <2>9, <2>10, <2>11, <2>12,
       <2>13, <2>14, <2>15 DEF Step
<1>3. CASE UNCHANGED vars
  <2>1. UNCHANGED <<network, file, disk, scratched, job>>
    BY <1>3 DEF vars
  <2>2. DiskFits' /\ JobsFit'
    BY <2>1 DEF Inductive, DiskFits, JobsFit, ScratchFiles
  <2>3. ASSUME NEW k \in Clerks PROVE Fits(k)'
    <3>1. Fits(k)
      BY DEF Inductive
    <3>2. StandsRight(k)'
      BY <2>1, <3>1 DEF Fits, StandsRight, Busy, Tool, Source, ScratchFiles
    <3>3. ScratchIsOwn(k)'
      BY <2>1, <3>1 DEF Fits, ScratchIsOwn, HasScratch, Tool, Edited, ScratchFiles
    <3>4. IsKept(k)' /\ EditsSteadily(k)' /\ EditsUndisturbed(k)' /\ SteadyIsUndisturbed(k)'
      BY <2>1, <3>1
        DEF Fits, IsKept, EditsSteadily, EditsUndisturbed, SteadyIsUndisturbed, Tool, Edited
    <3>5. QED BY <3>2, <3>3, <3>4 DEF Fits
  <2>4. QED BY <2>2, <2>3 DEF Inductive
<1>4. QED BY Zenon, <1>1, <1>2, <1>3 DEF Next

\* The invariant the other theorems rest on: where each tool stands with the files and
\* the network it has seen, whatever the others do in between.
THEOREM InductiveHolds == Spec => []Inductive
<1>1. QED BY InitHolds, NextHolds, PTL DEF Spec

\* A tool that has ended leaves nothing behind, the open network comes from a file there
\* is, and of the scratch files exactly the numbered ones are there (SCRATCH_FILES).
THEOREM TypesHold == Spec => []FilesTypeOK
<1>1. Inductive => FilesTypeOK
  <2> SUFFICES ASSUME Inductive PROVE FilesTypeOK
    OBVIOUS
  <2>1. /\ file = NoPath \/ file \in DOMAIN disk
        /\ DOMAIN disk \cap ScratchNames = ScratchFiles
    BY DEF Inductive, DiskFits
  <2>2. ASSUME NEW k \in Clerks
        PROVE  /\ ~Busy(k) => job[k] = [Free EXCEPT !.result = job[k].result]
               /\ job[k].order \in Orders \cup {NoOrder}
    <3>1. /\ ~Busy(k) => job[k] = [Free EXCEPT !.result = job[k].result]
          /\ Busy(k) => job[k].order \in Orders
      BY DEF Inductive, Fits, StandsRight
    <3>2. [Free EXCEPT !.result = job[k].result].order = NoOrder
      BY DEF Free
    <3>3. QED BY <3>1, <3>2
  <2>3. QED BY <2>1, <2>2 DEF FilesTypeOK
<1>2. QED BY <1>1, InductiveHolds, PTL

----------------------------------------------------------------------------
\* What a step may do.

\* Another's step may disturb a job; where the job is, it leaves alone.
LEMMA OthersKeepTheirPlace ==
  ASSUME Inductive, NEW c \in Clerks, Start(c) \/ Step(c), NEW k \in Clerks \ {c}
  PROVE  job'[k].pc = job[k].pc
<1>1. Disturbed(job[k]).pc = job[k].pc
  BY DEF Disturbed, IsJob, Inductive, JobsFit
<1>2. \A j : Goes(c, j) => job'[k] = job[k]
  BY DEF Goes, Inductive, JobsFit
<1>3. \A new, j : Replaces(c, new, j) => job'[k].pc = job[k].pc
  <2> SUFFICES ASSUME NEW new, NEW j, Replaces(c, new, j) PROVE job'[k].pc = job[k].pc
    OBVIOUS
  <2>1. PICK after \in {j, [Free EXCEPT !.result = "lost"]} :
          job' = [i \in Clerks |-> IF i = c THEN after
                                   ELSE IF Busy(i) THEN Disturbed(job[i]) ELSE job[i]]
    BY Zenon DEF Replaces
  <2>2. QED BY <1>1, <2>1
<1>4. Refused(c) => job'[k] = job[k]
  BY <1>2 DEF Refused, Ends
<1>5. CASE Start(c)
  BY Zenon, <1>2, <1>5 DEF Start
<1>6. CASE CurrentFile(c) \/ Folder(c) \/ Write(c) \/ Written(c) \/ There(c)
  BY Zenon, <1>2, <1>4, <1>6 DEF CurrentFile, Folder, Write, Written, There, To, Ends
<1>7. CASE Clear(c) \/ Load(c)
  BY Zenon, <1>3, <1>4, <1>7 DEF Clear, Load
<1>8. CASE Count(c) \/ Before(c) \/ Bytes(c) \/ WriteScratch(c) \/ ListUnits(c) \/ Lose(c)
  BY Zenon, <1>2, <1>4, <1>8 DEF Count, Before, Bytes, WriteScratch, ListUnits, Lose, To, Ends
<1>9. CASE Strip(c)
  BY Zenon, <1>2, <1>3, <1>4, <1>9 DEF Strip, Ends
<1>10. QED BY Zenon, <1>5, <1>6, <1>7, <1>8, <1>9 DEF Step

\* A job that gets elsewhere has done so itself.
LEMMA GetsThereItself ==
  ASSUME Inductive, Next, NEW k \in Clerks, job'[k].pc # job[k].pc
  PROVE  Start(k) \/ Step(k)
<1>1. CASE Build
  <2>1. Disturbed(job[k]).pc = job[k].pc
    BY DEF Disturbed, IsJob, Inductive, JobsFit
  <2>2. QED BY <1>1, <2>1 DEF Build
<1>2. CASE ~Build
  <2>1. PICK c \in Clerks : Start(c) \/ Step(c)
    BY Zenon, <1>2 DEF Next
  <2>2. CASE c = k
    BY <2>1, <2>2
  <2>3. CASE c # k
    BY <2>1, <2>3, OthersKeepTheirPlace
  <2>4. QED BY <2>2, <2>3
<1>3. QED BY <1>1, <1>2

\* open and new discard the network only when there is a file where it was to be kept
\* (save_current_to); if Packet Tracer can write there, it holds all of the network, unless
\* somebody changed that after it was saved.
THEOREM KeptWhereWritable == Spec => KeptIfWritable
<1> DEFINE Kept ==
      \A k \in Clerks :
        Discards(k) =>
          /\ job[k].order.keep \in DOMAIN disk
          /\ job[k].order.keep \notin Unwritable => disk[job[k].order.keep] = network
<1>1. Inductive => Kept
  <2> SUFFICES ASSUME Inductive, NEW k \in Clerks,
                      job[k].pc = "clear", job[k].order.keep # NoPath, job[k].undisturbed
               PROVE  /\ job[k].order.keep \in DOMAIN disk
                      /\ job[k].order.keep \in Unwritable \/ disk[job[k].order.keep] = network
    BY DEF Discards
  <2>1. Fits(k) /\ Busy(k)
    BY DEF Inductive, Busy
  <2>2. Tool(k) \in {"open", "new"}
    BY <2>1, OrdersAssumption DEF Fits, StandsRight, Tool
  <2>3. QED BY <2>1, <2>2 DEF Fits, IsKept
<1>2. QED BY <1>1, InductiveHolds, PTL DEF KeptIfWritable

\* The copy an edit opens is the network as it was taken with the edit in it, and with
\* nobody else at work the network ends as that, power units and all.
THEOREM EditsChangeNothingElse == Spec => EditIsAllThatChanges
<1> DEFINE Edits ==
      \A k \in Clerks :
        Tool(k) = "edit" =>
        /\ job[k].pc = "load" /\ job'[k].pc = "count" => network'.work = Edited(k).work
        /\ Leaves(k) /\ job'[k].result = "done" /\ job[k].steady => network' = Edited(k)
<1>1. ASSUME Inductive, Next PROVE Edits
  <2> SUFFICES ASSUME NEW k \in Clerks, Tool(k) = "edit"
               PROVE  /\ job[k].pc = "load" /\ job'[k].pc = "count"
                           => network'.work = Edited(k).work
                      /\ Leaves(k) /\ job'[k].result = "done" /\ job[k].steady
                           => network' = Edited(k)
    OBVIOUS
  <2>1. Fits(k) /\ IsJob(job[k]) /\ job \in [Clerks -> {job[i] : i \in Clerks}]
    BY <1>1 DEF Inductive, JobsFit
  <2>2. \A j : Goes(k, j) => job'[k] = j
    BY <2>1 DEF Goes
  <2>3. ASSUME job[k].pc = "load", job'[k].pc = "count" PROVE network'.work = Edited(k).work
    <3>1. Start(k) \/ Step(k)
      BY <1>1, <2>3, GetsThereItself
    <3>2. ~Lose(k) /\ ~Refused(k)
      BY <2>2, <2>3 DEF Lose, Refused, Ends, Free
    <3>3. Load(k)
      BY <2>3, <3>1, <3>2
        DEF Start, Step, Busy, CurrentFile, Folder, Write, Written, There, Clear, Count, Before,
            Bytes, WriteScratch, ListUnits, Strip
    <3>4. network' = Opened(disk[Source(k)])
      BY <3>2, <3>3 DEF Load, Replaces
    <3>5. Source(k) \in DOMAIN disk /\ disk[Source(k)] = Edited(k)
      <4>1. job[k].path \in ScratchFiles /\ disk[job[k].path] = Edited(k)
        BY <2>1, <2>3 DEF Fits, ScratchIsOwn, HasScratch
      <4>2. QED BY <1>1, <4>1 DEF Source, Inductive, DiskFits
    <3>6. IsNetwork(Edited(k))
      BY <1>1, <3>5 DEF Inductive, DiskFits
    <3>7. QED BY <3>4, <3>5, <3>6 DEF IsNetwork, Opened
  <2>4. ASSUME Leaves(k), job'[k].result = "done", job[k].steady PROVE network' = Edited(k)
    <3>1. Start(k) \/ Step(k)
      BY <1>1, <2>4, GetsThereItself DEF Leaves, Busy
    <3>2. ~Lose(k) /\ ~Refused(k) /\ \A j : Goes(k, j) => j.pc = "free" /\ j.result = "done"
      BY <2>2, <2>4 DEF Lose, Refused, Ends, Free, Leaves
    <3>3. \A new, j : Replaces(k, new, j) => job'[k] \in {j, [Free EXCEPT !.result = "lost"]}
      <4> SUFFICES ASSUME NEW new, NEW j, Replaces(k, new, j)
                   PROVE  job'[k] \in {j, [Free EXCEPT !.result = "lost"]}
        OBVIOUS
      <4>1. PICK after \in {j, [Free EXCEPT !.result = "lost"]} :
              job' = [i \in Clerks |-> IF i = k THEN after
                                       ELSE IF Busy(i) THEN Disturbed(job[i]) ELSE job[i]]
        BY Zenon DEF Replaces
      <4>2. QED BY <4>1
    <3>4. [Free EXCEPT !.result = "lost"].result # "done"
      BY DEF Free
    <3>5. Strip(k)
      <4>1. \A x, y : /\ [job[k] EXCEPT !.pc = x].pc = x
                      /\ [job[k] EXCEPT !.pc = x, !.path = y].pc = x
                      /\ [job[k] EXCEPT !.pc = x, !.before = y].pc = x
                      /\ [job[k] EXCEPT !.pc = x, !.extra = y].pc = x
                      /\ [job[k] EXCEPT !.pc = x, !.took = y, !.undisturbed = TRUE].pc = x
        BY <2>1 DEF IsJob
      <4>2. ~Start(k) /\ ~CurrentFile(k) /\ ~Folder(k) /\ ~Write(k) /\ ~Written(k)
        BY <2>1, <2>4 DEF Start, CurrentFile, Folder, Write, Written, Leaves, Fits, StandsRight, Saving
      <4>3. ~There(k) /\ ~Count(k)
        <5>1. \A x \in {"clear", "folder", "list"} : ~To(k, x)
          BY <3>2, <4>1 DEF To
        <5>2. QED BY <3>2, <5>1 DEF There, Count
      <4>4. ~Clear(k) /\ ~Load(k)
        <5>1. job'[k].pc = "free" /\ job'[k].result = "done"
          BY <2>4 DEF Leaves
        <5>2. ASSUME NEW new, NEW j, j.pc # "free" PROVE ~Replaces(k, new, j)
          BY <3>3, <3>4, <5>1, <5>2
        <5>3. [job[k] EXCEPT !.pc = "load"].pc # "free" /\ [job[k] EXCEPT !.pc = "count"].pc # "free"
          BY <4>1
        <5>4. QED BY Zenon, <3>2, <5>2, <5>3 DEF Clear, Load
      <4>5. ~Before(k) /\ ~Bytes(k) /\ ~WriteScratch(k) /\ ~ListUnits(k)
        <5>1. \A j : j.pc # "free" => ~Goes(k, j)
          BY <3>2
        <5>2. /\ [job[k] EXCEPT !.pc = "bytes", !.before = network.units].pc # "free"
              /\ [job[k] EXCEPT !.pc = "scratch", !.took = network, !.undisturbed = TRUE].pc # "free"
              /\ [job[k] EXCEPT !.pc = "there", !.path = Scratch[scratched + 1]].pc # "free"
              /\ [job[k] EXCEPT !.pc = "strip", !.extra = network.units \ job[k].before].pc # "free"
          BY <4>1
        <5>3. ~Before(k) /\ ~Bytes(k)
          BY Zenon, <5>1, <5>2 DEF Before, Bytes
        <5>4. ~WriteScratch(k) /\ ~ListUnits(k)
          BY Zenon, <3>2, <5>1, <5>2 DEF WriteScratch, ListUnits
        <5>5. QED BY <5>3, <5>4
      <4>6. QED BY Zenon, <3>1, <3>2, <4>2, <4>3, <4>4, <4>5 DEF Step
    <3>6. job[k].extra = {} /\ network' = network
      <4>1. CASE job[k].extra = {}
        BY <3>5, <4>1 DEF Strip, Reads
      <4>2. CASE job[k].extra # {}
        <5>1. PICK u \in job[k].extra :
                \/ Refused(k)
                \/ Replaces(k, [network EXCEPT !.units = @ \ {u}], [job[k] EXCEPT !.extra = @ \ {u}])
          BY Zenon, <3>5, <4>2 DEF Strip
        <5>2. [job[k] EXCEPT !.extra = job[k].extra \ {u}].pc = "strip"
          BY <2>1, <3>5 DEF IsJob, Strip
        <5>3. QED BY Zenon, <2>4, <3>2, <5>1, <5>2, <3>3, <3>4 DEF Leaves
      <4>3. QED BY <4>1, <4>2
    <3>7. /\ network.units = job[k].took.units /\ network.work = Edited(k).work
          /\ IsNetwork(network) /\ IsNetwork(job[k].took)
      <4>1. job[k].pc = "strip" /\ IsNetwork(network) /\ IsNetwork(job[k].took)
        BY <1>1, <2>1, <3>5 DEF Strip, Inductive, DiskFits, IsJob
      <4>2. network.units = job[k].before /\ job[k].before = job[k].took.units
        BY <2>1, <2>4, <3>6, <4>1 DEF Fits, EditsSteadily
      <4>3. network.work = Edited(k).work
        BY <2>1, <2>4, <4>1 DEF Fits, SteadyIsUndisturbed, EditsUndisturbed
      <4>4. QED BY <4>1, <4>2, <4>3
    <3>8. QED BY <3>6, <3>7 DEF IsNetwork, Edited
  <2>5. QED BY <2>3, <2>4
<1>2. ASSUME Inductive, [Next]_vars PROVE [Edits]_vars
  BY <1>1, <1>2
<1>3. QED BY <1>2, InductiveHolds, PTL DEF Spec, EditIsAllThatChanges

\* An edit that fails, at whatever step, has lost nothing: what was open when its bytes
\* were taken is open still, or in a scratch file, unless somebody else changed it since.
THEOREM EditsLoseNothing == Spec => NoEditLosesTheNetwork
<1> DEFINE Loses ==
      \A k \in Clerks :
        /\ Leaves(k) /\ Tool(k) = "edit" /\ job[k].pc \notin {"before", "bytes"}
        /\ job[k].undisturbed
        => \/ job[k].took.work \subseteq network'.work
           \/ \E s \in ScratchFiles \cap DOMAIN disk : job[k].took.work \subseteq disk[s].work
<1>1. ASSUME Inductive, Next PROVE Loses
  <2> SUFFICES ASSUME NEW k \in Clerks, Leaves(k), Tool(k) = "edit",
                      job[k].pc \notin {"before", "bytes"}, job[k].undisturbed
               PROVE  \/ job[k].took.work \subseteq network'.work
                      \/ \E s \in ScratchFiles \cap DOMAIN disk : job[k].took.work \subseteq disk[s].work
    OBVIOUS
  <2>1. /\ Fits(k) /\ IsJob(job[k]) /\ IsNetwork(network)
        /\ job[k].pc \in {"there", "clear", "load", "scratch", "count", "list", "strip"}
    BY <1>1 DEF Inductive, JobsFit, DiskFits, Fits, StandsRight, Leaves, Busy, Saving, Editing
  <2>2. job[k].took.work \subseteq Edited(k).work
    BY <2>1 DEF IsJob, IsNetwork, Edited
  <2>3. CASE job[k].pc \in {"there", "clear", "load"}
    <3>1. job[k].path \in ScratchFiles /\ disk[job[k].path] = Edited(k)
      BY <2>1, <2>3 DEF Fits, ScratchIsOwn, HasScratch
    <3>2. job[k].path \in DOMAIN disk
      BY <1>1, <3>1 DEF Inductive, DiskFits
    <3>3. QED BY <2>2, <3>1, <3>2
  <2>4. CASE job[k].pc \in {"scratch", "count", "list", "strip"}
    <3>1. job[k].took.work \subseteq network.work
      BY <2>1, <2>2, <2>4 DEF Fits, EditsUndisturbed
    <3>2. network'.work = network.work
      <4>1. Start(k) \/ Step(k)
        BY <1>1, GetsThereItself DEF Leaves, Busy
      <4>2. Count(k) \/ WriteScratch(k) \/ ListUnits(k) \/ Strip(k) \/ Lose(k)
        <5>1. ~Start(k) /\ ~CurrentFile(k) /\ ~Folder(k) /\ ~Write(k) /\ ~Written(k) /\ ~There(k)
          BY Zenon, <2>4 DEF Start, Busy, CurrentFile, Folder, Write, Written, There
        <5>2. ~Clear(k) /\ ~Load(k) /\ ~Before(k) /\ ~Bytes(k)
          BY Zenon, <2>4 DEF Clear, Load, Before, Bytes
        <5>3. QED BY Zenon, <4>1, <5>1, <5>2 DEF Step
      <4>3. CASE Count(k) \/ WriteScratch(k) \/ ListUnits(k) \/ Lose(k)
        BY Zenon, <4>3 DEF Count, WriteScratch, ListUnits, Lose, Refused, Reads
      <4>4. CASE Strip(k)
        <5>1. CASE job[k].extra = {}
          BY <4>4, <5>1 DEF Strip, Reads
        <5>2. CASE job[k].extra # {}
          <6>1. PICK u \in job[k].extra :
                  \/ Refused(k)
                  \/ Replaces(k, [network EXCEPT !.units = @ \ {u}],
                              [job[k] EXCEPT !.extra = @ \ {u}])
            BY Zenon, <4>4, <5>2 DEF Strip
          <6>2. CASE Refused(k)
            BY <6>2 DEF Refused, Reads
          <6>3. CASE network' = [network EXCEPT !.units = @ \ {u}]
            BY <2>1, <6>3 DEF IsNetwork
          <6>4. QED BY Zenon, <6>1, <6>2, <6>3 DEF Replaces
        <5>3. QED BY <5>1, <5>2
      <4>5. QED BY <4>2, <4>3, <4>4
    <3>3. QED BY <3>1, <3>2
  <2>5. QED BY <2>1, <2>3, <2>4
<1>2. ASSUME Inductive, [Next]_vars PROVE [Loses]_vars
  BY <1>1, <1>2
<1>3. QED BY <1>2, InductiveHolds, PTL DEF Spec, NoEditLosesTheNetwork
=============================================================================
