----------------------------- MODULE OutputFile -----------------------------
(***************************************************************************)
(* A JSON file the scrapers write with Path.write_text, and what a process *)
(* that reads it may get.  write_text truncates the file when it opens it  *)
(* and then writes from the start: there is no temporary file and no lock, *)
(* so a reader may meet a file that is empty or half written, and two      *)
(* writers overlay each other's bytes.                                     *)
(*                                                                         *)
(*   exists  the file is there                                             *)
(*   last    the writer that truncated it last                             *)
(*   done    that writer has written all of its body                       *)
(*   bodies  what writers that have closed since then may have left in it  *)
(*   open    the writers that hold it open, with what they write           *)
(*                                                                         *)
(* The bytes that a mix of two bodies ends up with are chosen when the     *)
(* file is read.                                                           *)
(***************************************************************************)
CONSTANTS
    Body,      \* what can be written
    Writer,    \* the processes that write
    Nobody,    \* the writer of a file that was there before
    Invalid    \* what a reader gets that json.loads rejects

OutputFileType ==
    [exists : BOOLEAN, last : Writer \cup {Nobody}, done : BOOLEAN,
     bodies : SUBSET Body, open : SUBSET (Writer \X Body)]

Absent == [exists |-> FALSE, last |-> Nobody, done |-> FALSE, bodies |-> {}, open |-> {}]

\* A whole file, left by an earlier invocation.
Old(b) == [exists |-> TRUE, last |-> Nobody, done |-> TRUE, bodies |-> {b}, open |-> {}]

\* open(path, "w")
Opened(f, w, b) ==
    [exists |-> TRUE, last |-> w, done |-> FALSE, bodies |-> {}, open |-> f.open \cup {<<w, b>>}]

WrittenBy(f, w) == {e[2] : e \in {o \in f.open : o[1] = w}}

\* The writer dies: any part of its body, or none, is in the file.
Abandoned(f, w) ==
    [f EXCEPT !.bodies = @ \cup WrittenBy(f, w), !.open = {o \in @ : o[1] # w}]

\* The writer has written its body to the end and closed the file.
Closed(f, w) == [Abandoned(f, w) EXCEPT !.done = @ \/ f.last = w]

\* Everything whose bytes may be in the file.
Contents(f) == f.bodies \cup {o[2] : o \in f.open}

\* What json.loads of the file's text may give.
Reads(f) ==
    IF ~f.exists \/ Contents(f) = {}
    THEN {Invalid}
    ELSE IF f.done /\ \E b \in Contents(f) : Contents(f) = {b}
         THEN Contents(f)
         ELSE Contents(f) \cup {Invalid}

\* Reading it gives one whole body, whatever was interleaved.
Whole(f) == Invalid \notin Reads(f)
=============================================================================
