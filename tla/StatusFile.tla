----------------------------- MODULE StatusFile -----------------------------
(***************************************************************************)
(* The status file (util.rs:114-158): every writer writes the same         *)
(* temporary file, then renames it; readers open the status file and read  *)
(* it.  The supervisor and any number of `helper disable` are the writers. *)
(*                                                                         *)
(* What matters is which inode a name leads to, and what is in the inode.  *)
(* The text of a status is a sequence of cells, each of which holds the    *)
(* status it belongs to; texts differ in length.                           *)
(***************************************************************************)
EXTENDS Naturals, Sequences

CONSTANTS
    Writer,     \* processes that write the status
    Value,      \* statuses
    Size,       \* the length of the text of each
    Inode,      \* enough inodes for all names and descriptors
    None,       \* no inode, no status, no write
    Hole        \* what a write beyond the end leaves before it

ASSUME SizeType == Size \in [Value -> Nat \ {0}]
ASSUME NoneHoleFresh ==
    None \notin Value \cup Inode /\ Hole \notin Value \cup {None}

VARIABLES
    path,       \* the inode called status, or None
    tmp,        \* the inode called status.tmp, or None
    text,       \* the text in each inode
    write,      \* the write each writer is in, or None: the inode it has open,
                \* the status, how much of it is written, and whether no other
                \* write overlaps it so far
    reader,     \* the inode the reader has open, or None
    last,       \* the status of the last rename, or None
    clash,      \* whether two writes overlapped since a lone one was done
    torn        \* whether that concerns the file the reader has open

names == <<path, tmp>>
history == <<last, clash>>
reading == <<reader, torn>>
vars == <<names, text, write, history, reading>>

Text(v) == [i \in 1..Size[v] |-> v]

Busy(w) == write[w] # None
Others(w) == {o \in Writer \ {w} : Busy(o)}

Referenced == {path, tmp, reader} \cup {write[w].fd : w \in {o \in Writer : Busy(o)}}

Init ==
    /\ path = None /\ tmp = None
    /\ text = [i \in Inode |-> <<>>]
    /\ write = [w \in Writer |-> None]
    /\ reader = None /\ torn = FALSE
    /\ last = None /\ clash = FALSE

-----------------------------------------------------------------------------
(* write_atomic *)

\* Mutant: an existing file is not truncated.
Truncated(i) == text

Emptied(i) == [text EXCEPT ![i] = <<>>]

\* Create or truncate the temporary file.
Open(w) ==
    /\ ~Busy(w)
    /\ \E i \in Inode, v \in Value :
        /\ IF tmp = None THEN i \notin Referenced ELSE i = tmp
        /\ tmp' = i
        /\ text' = Emptied(i)
        /\ write' =
            [o \in Writer |->
                IF o = w THEN [fd |-> i, value |-> v, pos |-> 0,
                               alone |-> Others(w) = {}]
                ELSE IF Busy(o) THEN [write[o] EXCEPT !.alone = FALSE]
                ELSE None]
    /\ clash' = (clash \/ Others(w) # {})
    /\ torn' = (torn \/ Others(w) # {})
    /\ UNCHANGED <<path, reader, last>>

\* The text with v in cell n.
Put(old, n, v) ==
    [i \in 1..(IF Len(old) < n THEN n ELSE Len(old)) |->
        IF i = n THEN v ELSE IF i <= Len(old) THEN old[i] ELSE Hole]

\* Mutant: more is written than there is.
WriteOn(w) ==
    /\ Busy(w)
    /\ text' = [text EXCEPT ![write[w].fd] =
                    Put(@, write[w].pos + 1, write[w].value)]
    /\ write' = [write EXCEPT ![w].pos = @ + 1]
    /\ UNCHANGED <<names, history, reading>>

\* The kernel takes as much as it likes at a time.
Write(w) ==
    /\ Busy(w) /\ write[w].pos < Size[write[w].value]
    /\ text' = [text EXCEPT ![write[w].fd] =
                    Put(@, write[w].pos + 1, write[w].value)]
    /\ write' = [write EXCEPT ![w].pos = @ + 1]
    /\ UNCHANGED <<names, history, reading>>

\* Mutant: the rename does not wait for the text.
WrittenSome(w) == TRUE

Written(w) == write[w].pos = Size[write[w].value]

\* Rename it, whoever's it is by now; there may be none, which is ignored.
Rename(w) ==
    /\ Busy(w) /\ Written(w)
    /\ IF tmp # None THEN path' = tmp /\ tmp' = None ELSE UNCHANGED names
    /\ write' = [write EXCEPT ![w] = None]
    /\ last' = write[w].value
    /\ clash' = (clash /\ ~write[w].alone)
    /\ UNCHANGED <<text, reading>>

\* The write fails, or the process is killed: no rename.
GiveUp(w) ==
    /\ Busy(w)
    /\ write' = [write EXCEPT ![w] = None]
    /\ UNCHANGED <<names, text, history, reading>>

-----------------------------------------------------------------------------
(* read_status *)

ReaderOpen ==
    /\ reader = None /\ path # None
    /\ reader' = path
    /\ torn' = clash
    /\ UNCHANGED <<names, text, write, history>>

\* Some(status) where the text parses; the caller takes None for "stopped".
Parsed(i) ==
    IF \E v \in Value : text[i] = Text(v)
    THEN CHOOSE v \in Value : text[i] = Text(v) ELSE None

ReaderDone ==
    /\ reader # None
    /\ reader' = None /\ torn' = FALSE
    /\ UNCHANGED <<names, text, write, history>>

Update == \E w \in Writer : Open(w) \/ Write(w) \/ Rename(w)

Next ==
    \/ Update
    \/ \E w \in Writer : GiveUp(w)
    \/ ReaderOpen \/ ReaderDone

Spec == Init /\ [][Next]_vars

\* Every write is done.
SpecNoGiveUp == Init /\ [][Update \/ ReaderOpen \/ ReaderDone]_vars

-----------------------------------------------------------------------------
(* Properties *)

Cell == Value \cup {Hole}
WriteType == [fd : Inode, value : Value, pos : Nat, alone : BOOLEAN]

TypeOK ==
    /\ path \in Inode \cup {None} /\ tmp \in Inode \cup {None}
    /\ text \in [Inode -> Seq(Cell)]
    /\ write \in [Writer -> WriteType \cup {None}]
    /\ \A w \in Writer : Busy(w) => write[w].pos <= Size[write[w].value]
    /\ reader \in Inode \cup {None}
    /\ last \in Value \cup {None}
    /\ clash \in BOOLEAN /\ torn \in BOOLEAN

\* Where no two writes overlap, and whoever is killed in the middle of one, the
\* status file is a register: it shows the status of the last rename and
\* nothing else, and what a reader opened stays whole while it reads.
RegisterUnlessClash ==
    /\ ~clash => IF path = None THEN last = None ELSE Parsed(path) = last
    /\ ~torn /\ reader # None => Parsed(reader) # None

\* However badly earlier writes have torn it, one write that no other overlaps
\* makes the file whole again, and its own.
LoneWriteMends ==
    [][\A w \in Writer : Rename(w) /\ write[w].alone =>
        path' # None /\ text'[path'] = Text(write[w].value)]_vars

\* "Atomically write a file (temp + rename)" (util.rs:114): when all writes are
\* done, the file holds one whole status.
AtomicWrite ==
    (\A w \in Writer : ~Busy(w)) => (path = None \/ Parsed(path) # None)
=============================================================================
