---------------------------- MODULE NetworkFiles ----------------------------
(***************************************************************************)
(* The tools that put the open network on disk, open another one in its    *)
(* place, or edit it through its file: features/workspace/files.rs and     *)
(* features/network_file.rs.                                               *)
(*                                                                         *)
(* save, open, new and the edits are sequences of IPC calls with nothing   *)
(* held in between, several of them may be under way at once, and the      *)
(* other tools change the network between their steps.  Opening starts     *)
(* with fileNew, which discards what is open.  An edit takes the network's *)
(* bytes, writes an edited copy to a scratch file and opens that; Packet   *)
(* Tracer adds a power unit to every network it opens, and an edit takes   *)
(* away those that were not there before.  An IPC call may be lost before  *)
(* Packet Tracer sees it or after it took effect.                          *)
(*                                                                         *)
(* A network is what has been built in it and the power units it has; a    *)
(* path is absolute and ends in .pkt or .pka, as network_path requires.    *)
(***************************************************************************)
EXTENDS Integers, Sequences, FiniteSets

CONSTANTS
  Clerks,      \* save, open, new and edit calls under way at once
  Orders,      \* what the agents may ask for: [tool, path, keep, mark]
  NoPath,      \* no path was given, or the network has no file
  Missing,     \* paths whose folder does not exist
  Unwritable,  \* paths Packet Tracer cannot write, and does not say so
  Scratch,     \* the names of the edits' scratch files, by number
  Library,     \* the files there are at first
  Works,       \* what the other tools build and take down
  MaxOrders,   \* bound: orders taken
  MaxBuilt     \* bound: changes of the other tools

\* A network, an order, as they are put together.
IsNetwork(net) == net = [work |-> net.work, units |-> net.units]
IsOrder(o) == o = [tool |-> o.tool, path |-> o.path, keep |-> o.keep, mark |-> o.mark]

ScratchNames == {Scratch[i] : i \in 1 .. Len(Scratch)}

\* save_current_to is a field of open and new alone; nobody names a scratch file, which
\* is in the folder of temporary files and has the number of the process.
ASSUME OrdersAssumption ==
  \A o \in Orders :
    /\ IsOrder(o) /\ o.tool \in {"save", "open", "new", "edit"}
    /\ o.tool \in {"save", "edit"} => o.keep = NoPath
    /\ {o.path, o.keep} \cap ScratchNames = {}

ASSUME ScratchAssumption ==
  /\ Len(Scratch) \in Nat /\ MaxOrders \in Nat /\ Len(Scratch) >= MaxOrders
  /\ \A i, j \in 1 .. Len(Scratch) : Scratch[i] = Scratch[j] => i = j
  /\ ScratchNames \cap (DOMAIN Library \cup {NoPath}) = {}

ASSUME LibraryAssumption == \A p \in DOMAIN Library : IsNetwork(Library[p])

VARIABLES
  network,   \* the open network
  file,      \* the file it was opened from or last saved to
  disk,      \* the networks in the files there are
  scratched, \* SCRATCH_FILES, the scratch files numbered so far
  job,       \* what each clerk is doing
  ordered,   \* orders taken
  built      \* changes of the other tools

vars == <<network, file, disk, scratched, job, ordered, built>>

Empty == [work |-> {}, units |-> {}]

NoOrder == [tool |-> "none", path |-> NoPath, keep |-> NoPath, mark |-> "none"]

\* took is the network an edit was given.  steady and undisturbed only serve the
\* properties: nobody else has changed the network since the job began, or since it last
\* saved or took it.
Free == [pc |-> "free", order |-> NoOrder, path |-> NoPath, before |-> {}, took |-> Empty,
         extra |-> {}, steady |-> TRUE, undisturbed |-> TRUE, result |-> "none"]

Busy(k) == job[k].pc # "free"

Tool(k) == job[k].order.tool

\* The disk with one more network, or another one in its file.
Stored(path, net) == [p \in DOMAIN disk \cup {path} |-> IF p = path THEN net ELSE disk[p]]

----------------------------------------------------------------------------
\* How a job goes on and how it ends.

Goes(k, j) == job' = [job EXCEPT ![k] = j]
To(k, pc) == Goes(k, [job[k] EXCEPT !.pc = pc])
Ends(k, result) == Goes(k, [Free EXCEPT !.result = result])

Reads == UNCHANGED <<network, file, disk, scratched, ordered, built>>

Refused(k) == Ends(k, "refused") /\ Reads

Disturbed(j) == [j EXCEPT !.steady = FALSE, !.undisturbed = FALSE]

\* The open network changes by a call of k, whose reply arrives (k goes on as j) or is
\* lost; the other jobs are disturbed.
Replaces(k, new, j) ==
  /\ network' = new
  /\ \E after \in {j, [Free EXCEPT !.result = "lost"]} :
       job' = [i \in Clerks |-> IF i = k THEN after
                                ELSE IF Busy(i) THEN Disturbed(job[i]) ELSE job[i]]
  /\ UNCHANGED <<disk, scratched, ordered, built>>

\* The first step of an order; a file to keep the open network in is saved before
\* anything is discarded.
FirstStep(o) ==
  CASE o.tool = "save" -> IF o.path = NoPath THEN "current" ELSE "folder"
    [] o.tool = "open" -> "there"
    [] o.tool = "new"  -> IF o.keep = NoPath THEN "clear" ELSE "folder"
    [] o.tool = "edit" -> "before"

Start(k) ==
  /\ ~Busy(k)
  /\ ordered < MaxOrders
  /\ \E o \in Orders :
       Goes(k, [Free EXCEPT !.pc = FirstStep(o), !.order = o,
                            !.path = IF o.tool = "save" THEN o.path ELSE o.keep])
  /\ ordered' = ordered + 1
  /\ UNCHANGED <<network, file, disk, scratched, built>>

----------------------------------------------------------------------------
\* save, and save_current before an open or a new network: save_to.

CurrentFile(k) ==
  /\ job[k].pc = "current"
  /\ IF file = NoPath THEN Refused(k)
     ELSE Goes(k, [job[k] EXCEPT !.pc = "folder", !.path = file]) /\ Reads

Folder(k) ==
  /\ job[k].pc = "folder"
  /\ IF job[k].path \in Missing THEN Refused(k) ELSE To(k, "write") /\ Reads

\* fileSaveAsNoPrompt answers the same whether it wrote or not.
Write(k) ==
  /\ job[k].pc = "write"
  /\ IF job[k].path \in Unwritable THEN UNCHANGED <<disk, file>>
     ELSE disk' = Stored(job[k].path, network) /\ file' = job[k].path
  /\ \/ Goes(k, [job[k] EXCEPT !.pc = "written", !.undisturbed = TRUE])
     \/ Ends(k, "lost")
  /\ UNCHANGED <<network, scratched, ordered, built>>

\* The file is not looked for after the save.
Written_Assumed(k) ==
  /\ job[k].pc = "written"
  /\ IF Tool(k) = "save" THEN Ends(k, "done") ELSE To(k, "clear")
  /\ Reads

\* fileExists; then the tool that wanted the network kept goes on.
Written(k) ==
  /\ job[k].pc = "written"
  /\ IF job[k].path \notin DOMAIN disk THEN Refused(k)
     ELSE (IF Tool(k) = "save" THEN Ends(k, "done") ELSE To(k, "clear")) /\ Reads

----------------------------------------------------------------------------
\* open and new_network; an edit opens its scratch file.

\* The file an open reads.
Source(k) == IF Tool(k) = "edit" THEN job[k].path ELSE job[k].order.path

There(k) ==
  /\ job[k].pc = "there"
  /\ IF Source(k) \notin DOMAIN disk THEN Refused(k)
     ELSE To(k, IF job[k].order.keep = NoPath THEN "clear" ELSE "folder") /\ Reads

\* fileNew, which Packet Tracer may refuse.
Clear(k) ==
  /\ job[k].pc = "clear"
  /\ \/ Refused(k)
     \/ /\ file' = NoPath
        /\ Replaces(k, Empty, IF Tool(k) = "new" THEN [Free EXCEPT !.result = "done"]
                              ELSE [job[k] EXCEPT !.pc = "load"])

\* Packet Tracer gives a network it opens a power unit more.
NewUnit(net) == CHOOSE u \in 1 .. (Cardinality(net.units) + 1) : u \notin net.units

Opened(net) == [net EXCEPT !.units = @ \cup {NewUnit(net)}]

\* fileOpen; when Packet Tracer will not have the file, what was open is gone all the same.
Load(k) ==
  /\ job[k].pc = "load"
  /\ \/ Refused(k)
     \/ /\ file' = Source(k)
        /\ Replaces(k, Opened(disk[Source(k)]), [job[k] EXCEPT !.pc = "count"])

\* The devices are counted for the answer.
Count(k) ==
  /\ job[k].pc = "count"
  /\ IF Tool(k) = "edit" THEN To(k, "list") ELSE Ends(k, "done")
  /\ Reads

----------------------------------------------------------------------------
\* edit_saved_network

\* The devices before the edit are not noted.
Before_Forgotten(k) ==
  /\ job[k].pc = "before"
  /\ To(k, "bytes")
  /\ Reads

Before(k) ==
  /\ job[k].pc = "before"
  /\ Goes(k, [job[k] EXCEPT !.pc = "bytes", !.before = network.units])
  /\ Reads

\* fileSaveToBytes
Bytes(k) ==
  /\ job[k].pc = "bytes"
  /\ Goes(k, [job[k] EXCEPT !.pc = "scratch", !.took = network, !.undisturbed = TRUE])
  /\ Reads

Edited(k) == [job[k].took EXCEPT !.work = @ \cup {job[k].order.mark}]

\* All edits of the process write the same scratch file.
WriteScratch_Shared(k) ==
  /\ job[k].pc = "scratch"
  /\ \/ Refused(k)
     \/ /\ disk' = Stored(Scratch[1], Edited(k))
        /\ Goes(k, [job[k] EXCEPT !.pc = "there", !.path = Scratch[1]])
        /\ scratched' = scratched + 1
        /\ UNCHANGED <<network, file, ordered, built>>

\* The edit may not apply, and pktctl may not be able to write the file.  There are names
\* enough for all orders.
WriteScratch(k) ==
  /\ job[k].pc = "scratch"
  /\ \/ Refused(k)
     \/ /\ scratched < Len(Scratch)
        /\ disk' = Stored(Scratch[scratched + 1], Edited(k))
        /\ Goes(k, [job[k] EXCEPT !.pc = "there", !.path = Scratch[scratched + 1]])
        /\ scratched' = scratched + 1
        /\ UNCHANGED <<network, file, ordered, built>>

ListUnits(k) ==
  /\ job[k].pc = "list"
  /\ Goes(k, [job[k] EXCEPT !.pc = "strip", !.extra = network.units \ job[k].before])
  /\ Reads

\* The units that were not there before go one by one, and the edit fails at one that
\* somebody else has removed; fast_forward ends it.
Strip(k) ==
  /\ job[k].pc = "strip"
  /\ IF job[k].extra = {} THEN Ends(k, "done") /\ Reads
     ELSE \E u \in job[k].extra :
            IF u \notin network.units THEN Refused(k)
            ELSE /\ Replaces(k, [network EXCEPT !.units = @ \ {u}],
                             [job[k] EXCEPT !.extra = @ \ {u}])
                 /\ UNCHANGED file

----------------------------------------------------------------------------
\* An IPC call whose request never reaches Packet Tracer ends the tool.
Lose(k) == Busy(k) /\ job[k].pc # "scratch" /\ Ends(k, "lost") /\ Reads

\* A call of any other tool that changes the network.
Build ==
  /\ built < MaxBuilt
  /\ \E w \in Works : network' \in {[network EXCEPT !.work = @ \cup {w}],
                                    [network EXCEPT !.work = @ \ {w}]}
  /\ network' # network
  /\ job' = [k \in Clerks |-> IF Busy(k) THEN Disturbed(job[k]) ELSE job[k]]
  /\ built' = built + 1
  /\ UNCHANGED <<file, disk, scratched, ordered>>

Init ==
  /\ network = Empty
  /\ file = NoPath
  /\ disk = Library
  /\ scratched = 0
  /\ job = [k \in Clerks |-> Free]
  /\ ordered = 0
  /\ built = 0

Step(k) ==
  \/ CurrentFile(k) \/ Folder(k) \/ Write(k) \/ Written(k)
  \/ There(k) \/ Clear(k) \/ Load(k) \/ Count(k)
  \/ Before(k) \/ Bytes(k) \/ WriteScratch(k) \/ ListUnits(k) \/ Strip(k)
  \/ Lose(k)

Next == Build \/ \E k \in Clerks : Start(k) \/ Step(k)

Spec == Init /\ [][Next]_vars

----------------------------------------------------------------------------
\* Properties.

ScratchFiles == {Scratch[i] : i \in 1 .. scratched}

Leaves(k) == Busy(k) /\ job'[k].pc = "free"

\* A free clerk keeps nothing but its last result; there is a file wherever the open
\* network says it comes from, and the files of edits are the numbered ones.
FilesTypeOK ==
  /\ file = NoPath \/ file \in DOMAIN disk
  /\ DOMAIN disk \cap ScratchNames = ScratchFiles
  /\ \A k \in Clerks : ~Busy(k) => job[k] = [Free EXCEPT !.result = job[k].result]
  /\ \A k \in Clerks : job[k].order \in Orders \cup {NoOrder}

\* open or new discards the network that it was to keep, and nobody has changed it since
\* it was saved.
Discards(k) ==
  /\ job[k].pc = "clear" /\ job[k].order.keep # NoPath /\ job[k].undisturbed
  /\ network' = Empty
  /\ job'[k] # job[k]

\* "Pass save_current_to to keep the current work before it is discarded", and "a write
\* failure is reported instead of assumed" (workspace/README.md): the file the discarded
\* network was to be kept in holds all of it.  An older file in that place that cannot be
\* written passes for the saved one (save_to looks only for a file).
KeptBeforeDiscard ==
  [][\A k \in Clerks :
       Discards(k) => /\ job[k].order.keep \in DOMAIN disk
                      /\ disk[job[k].order.keep] = network]_vars

\* What the code does ensure: nothing is discarded unless there is a file where it was to
\* be kept, and where Packet Tracer can write, that file holds all of it, whatever other
\* clerks save, open or edit meanwhile.
KeptIfWritable ==
  [][\A k \in Clerks :
       Discards(k) =>
         /\ job[k].order.keep \in DOMAIN disk
         /\ job[k].order.keep \notin Unwritable => disk[job[k].order.keep] = network]_vars

\* An edit changes what it was asked to and nothing else: the copy that is opened is the
\* network as it was taken with the edit in it, also while others edit; and at the end
\* the units are those there were, no more and no fewer.
EditIsAllThatChanges ==
  [][\A k \in Clerks :
       Tool(k) = "edit" =>
       /\ job[k].pc = "load" /\ job'[k].pc = "count" => network'.work = Edited(k).work
       /\ Leaves(k) /\ job'[k].result = "done" /\ job[k].steady
          => network' = Edited(k)]_vars

\* An edit that fails, at whatever step, has lost nothing: all that was open when its
\* bytes were taken is still open, or in a scratch file, unless somebody else changed the
\* network since.
NoEditLosesTheNetwork ==
  [][\A k \in Clerks :
       /\ Leaves(k) /\ Tool(k) = "edit" /\ job[k].pc \notin {"before", "bytes"}
       /\ job[k].undisturbed
       => \/ job[k].took.work \subseteq network'.work
          \/ \E s \in ScratchFiles \cap DOMAIN disk : job[k].took.work \subseteq disk[s].work]_vars
=============================================================================
