--------------------------- MODULE MCNetworkFiles ---------------------------
\* Constants of the run of NetworkFiles.
EXTENDS NetworkFiles, TLC

MCScratch == <<"edit-0.pkt", "edit-1.pkt", "edit-2.pkt">>
MCLibrary == [p \in {"lab.pkt", "old.pkt"} |-> [work |-> {"router"}, units |-> {1}]]

Saves(p) == [tool |-> "save", path |-> p, keep |-> NoPath, mark |-> "none"]
Opens(p, keep) == [tool |-> "open", path |-> p, keep |-> keep, mark |-> "none"]
News(keep) == [tool |-> "new", path |-> NoPath, keep |-> keep, mark |-> "none"]
Edits(mark) == [tool |-> "edit", path |-> NoPath, keep |-> NoPath, mark |-> mark]

\* Every tool, with a file that is there, one that is not, one in a missing folder, one
\* that cannot be written, an old one that cannot be written over, and none.
MCOrders ==
  {Saves(NoPath), Saves("lab.pkt"), Opens("lab.pkt", NoPath), Opens("lab.pkt", "kept.pkt"),
   Opens("kept.pkt", NoPath), News(NoPath), News("kept.pkt"), News("missing/kept.pkt"),
   News("readonly.pkt"), News("old.pkt"), Edits("circle"), Edits("building")}
=============================================================================
