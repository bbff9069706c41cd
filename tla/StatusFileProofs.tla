-------------------------- MODULE StatusFileProofs --------------------------
(***************************************************************************)
(* What StatusFile promises for any writers, statuses and inodes.          *)
(***************************************************************************)
EXTENDS StatusFile, SequenceTheorems, TLAPS

-----------------------------------------------------------------------------
(* The inductive invariant *)

\* A lone write is the only one, and whoever writes while there is no clash is
\* alone.
AloneInv ==
    /\ \A w \in Writer : Busy(w) /\ write[w].alone =>
        \A o \in Writer \ {w} : ~Busy(o)
    /\ ~clash => \A w \in Writer : Busy(w) => write[w].alone

\* The temporary file is neither the status file nor what a reader reads.
NamesInv ==
    /\ tmp # None => tmp # path
    /\ tmp # None => tmp # reader

\* What is written of a text: its first pos cells, and nothing else.
HoldsPrefix(t, v, pos) ==
    Len(t) = pos /\ \A i \in 1..pos : t[i] = v

\* A lone write has the temporary file to itself.
LoneInv ==
    \A w \in Writer : Busy(w) /\ write[w].alone =>
        /\ tmp = write[w].fd
        /\ HoldsPrefix(text[tmp], write[w].value, write[w].pos)

\* Without a clash the file holds the last status; an opened file that is not
\* torn holds one, and only lone writes are under way.
FileInv == ~clash => IF path = None THEN last = None
                     ELSE last \in Value /\ text[path] = Text(last)

ReaderInv ==
    ~torn /\ reader # None =>
        /\ \E v \in Value : text[reader] = Text(v)
        /\ \A w \in Writer : Busy(w) => write[w].alone

IInv == TypeOK /\ AloneInv /\ NamesInv /\ LoneInv /\ FileInv /\ ReaderInv

-----------------------------------------------------------------------------
(* Texts *)

\* A text is a sequence of its own status, never empty.
LEMMA TextType ==
    ASSUME NEW v \in Value
    PROVE  /\ Text(v) \in Seq(Cell) /\ Len(Text(v)) = Size[v]
           /\ Size[v] \in Nat \ {0}
           /\ \A i \in 1..Size[v] : Text(v)[i] = v
  <1>1. Size[v] \in Nat \ {0}
    BY SizeType
  <1>2. Text(v) \in [1..Size[v] -> Cell]
    BY DEF Text, Cell
  <1>3. QED
    BY <1>1, <1>2, SeqDef DEF Text

\* A text tells its status.
LEMMA TextInjective ==
    ASSUME NEW u \in Value, NEW v \in Value, Text(u) = Text(v)
    PROVE  u = v
  <1>1. 1 \in 1..Size[u] /\ 1 \in 1..Size[v]
    BY SizeType
  <1>2. QED
    BY <1>1 DEF Text

\* An inode that holds a text is read as its status.
LEMMA ParsedText ==
    ASSUME NEW i \in Inode, NEW v \in Value, text[i] = Text(v)
    PROVE  Parsed(i) = v
  <1>1. \A u \in Value : text[i] = Text(u) => u = v
    BY TextInjective
  <1>2. QED
    BY <1>1 DEF Parsed

\* What is written in full is the text.
LEMMA WholePrefix ==
    ASSUME NEW v \in Value, NEW t \in Seq(Cell), HoldsPrefix(t, v, Size[v])
    PROVE  t = Text(v)
  <1>1. Len(t) = Len(Text(v)) /\ \A i \in 1..Len(t) : t[i] = Text(v)[i]
    BY TextType DEF HoldsPrefix
  <1>2. QED
    BY <1>1, TextType, SeqEqual

\* A cell more.
LEMMA PutType ==
    ASSUME NEW old \in Seq(Cell), NEW n \in Nat \ {0}, NEW v \in Value
    PROVE  Put(old, n, v) \in Seq(Cell)
  <1> DEFINE m == IF Len(old) < n THEN n ELSE Len(old)
  <1>1. m \in Nat
    OBVIOUS
  <1>2. \A i \in 1..m : (IF i = n THEN v ELSE IF i <= Len(old) THEN old[i] ELSE Hole)
            \in Cell
    BY ElementOfSeq DEF Cell
  <1>3. Put(old, n, v) \in [1..m -> Cell]
    BY <1>2 DEF Put
  <1>4. QED
    BY <1>1, <1>3, SeqDef

\* A cell at the end of what is written of a text.
LEMMA PutPrefix ==
    ASSUME NEW t \in Seq(Cell), NEW v \in Value, NEW pos \in Nat,
           HoldsPrefix(t, v, pos)
    PROVE  HoldsPrefix(Put(t, pos + 1, v), v, pos + 1)
  <1>1. Put(t, pos + 1, v) \in Seq(Cell)
    BY PutType
  <1>2. DOMAIN Put(t, pos + 1, v) = 1..(pos + 1)
    BY DEF Put, HoldsPrefix
  <1>3. Len(Put(t, pos + 1, v)) = pos + 1
    BY <1>1, <1>2, LenProperties
  <1>4. \A i \in 1..(pos + 1) : Put(t, pos + 1, v)[i] = v
    BY DEF Put, HoldsPrefix
  <1>5. QED
    BY <1>3, <1>4 DEF HoldsPrefix

-----------------------------------------------------------------------------
(* The types *)

\* Every step keeps the types: a write ends at the end of its text.
LEMMA TypeStep == TypeOK /\ [Next]_vars => TypeOK'
<1> SUFFICES ASSUME TypeOK, [Next]_vars PROVE TypeOK'
  OBVIOUS
<1> USE DEF TypeOK, names, history, reading
<1>1. ASSUME NEW w \in Writer, Open(w) PROVE TypeOK'
  <2>1. PICK i \in Inode, v \in Value :
          /\ tmp' = i
          /\ text' = Emptied(i)
          /\ write' =
              [o \in Writer |->
                  IF o = w THEN [fd |-> i, value |-> v, pos |-> 0,
                                 alone |-> Others(w) = {}]
                  ELSE IF Busy(o) THEN [write[o] EXCEPT !.alone = FALSE]
                  ELSE None]
    BY <1>1 DEF Open
  <2>2. text' \in [Inode -> Seq(Cell)]
    BY <2>1 DEF Emptied
  <2>3. /\ write'[w] \in WriteType
        /\ write'[w] # None => write'[w].pos <= Size[write'[w].value]
    <3>1. (Others(w) = {}) \in BOOLEAN
      BY Zenon
    <3>2. QED
      BY <2>1, <3>1, SizeType DEF WriteType
  <2>4. ASSUME NEW o \in Writer \ {w}
        PROVE  /\ write'[o] \in WriteType \cup {None}
               /\ write'[o] # None => write'[o].pos <= Size[write'[o].value]
    BY <2>1, <2>4 DEF WriteType, Busy
  <2>5. write' \in [Writer -> WriteType \cup {None}]
    <3>1. \A o \in Writer : write'[o] \in WriteType \cup {None}
      BY <2>3, <2>4
    <3>2. QED
      BY <2>1, <3>1, Zenon
  <2>6. clash' \in BOOLEAN /\ torn' \in BOOLEAN
    BY <1>1, Zenon DEF Open
  <2>7. path' = path /\ reader' = reader /\ last' = last
    BY <1>1 DEF Open
  <2>8. QED
    BY <2>1, <2>2, <2>3, <2>4, <2>5, <2>6, <2>7 DEF Busy
<1>2. ASSUME NEW w \in Writer, Write(w) PROVE TypeOK'
  <2>1. /\ write[w] \in WriteType /\ write[w].pos < Size[write[w].value]
        /\ write' = [write EXCEPT ![w].pos = @ + 1]
        /\ text' = [text EXCEPT ![write[w].fd] =
                        Put(@, write[w].pos + 1, write[w].value)]
    BY <1>2 DEF Write, Busy
  <2>2. text' \in [Inode -> Seq(Cell)]
    <3>1. /\ text[write[w].fd] \in Seq(Cell) /\ write[w].value \in Value
          /\ write[w].pos + 1 \in Nat \ {0}
      BY <2>1 DEF WriteType
    <3>2. Put(text[write[w].fd], write[w].pos + 1, write[w].value) \in Seq(Cell)
      BY <3>1, PutType
    <3>3. QED
      BY <2>1, <3>2
  <2>3. /\ write'[w] \in WriteType
        /\ write'[w].pos <= Size[write'[w].value]
    <3>1. write'[w] = [write[w] EXCEPT !.pos = @ + 1]
      BY <2>1
    <3>2. write[w].pos \in Nat /\ Size[write[w].value] \in Nat
      BY <2>1, SizeType DEF WriteType
    <3>3. write[w].pos + 1 \in Nat /\ write[w].pos + 1 <= Size[write[w].value]
      BY <2>1, <3>2
    <3>4. /\ write'[w].fd = write[w].fd /\ write'[w].value = write[w].value
          /\ write'[w].pos = write[w].pos + 1
          /\ write'[w] \in WriteType
      BY <2>1, <3>1, <3>3 DEF WriteType
    <3>5. QED
      BY <3>3, <3>4
  <2>4. \A o \in Writer \ {w} : write'[o] = write[o]
    BY <2>1
  <2>5. write' \in [Writer -> WriteType \cup {None}]
    <3>1. \A o \in Writer : write'[o] \in WriteType \cup {None}
      BY <2>3, <2>4
    <3>2. QED
      BY <2>1, <3>1, Zenon
  <2>6. \A o \in Writer : write'[o] # None => write'[o].pos <= Size[write'[o].value]
    BY <2>3, <2>4 DEF Busy
  <2>7. QED
    BY <1>2, <2>2, <2>5, <2>6 DEF Write, Busy
<1>3. ASSUME NEW w \in Writer, Rename(w) PROVE TypeOK'
  <2>1. clash' \in BOOLEAN
    BY <1>3, Zenon DEF Rename
  <2>2. QED
    BY <1>3, <2>1 DEF Rename, Busy, WriteType
<1>4. ASSUME NEW w \in Writer, GiveUp(w) PROVE TypeOK'
  BY <1>4 DEF GiveUp, Busy
<1>5. CASE ReaderOpen
  BY <1>5 DEF ReaderOpen, Busy
<1>6. CASE ReaderDone
  BY <1>6 DEF ReaderDone, Busy
<1>7. CASE UNCHANGED vars
  BY <1>7 DEF vars, Busy
<1>8. QED
  BY <1>1, <1>2, <1>3, <1>4, <1>5, <1>6, <1>7 DEF Next, Update

\* There is no file at the start, and nobody writes.
LEMMA TypeInit == Init => TypeOK
<1> SUFFICES ASSUME Init PROVE TypeOK
  OBVIOUS
<1>1. clash \in BOOLEAN /\ torn \in BOOLEAN
  BY Zenon DEF Init
<1>2. text \in [Inode -> Seq(Cell)]
  BY EmptySeq DEF Init
<1>3. \A w \in Writer : write[w] = None
  BY DEF Init
<1>4. write \in [Writer -> WriteType \cup {None}]
  BY DEF Init
<1>5. QED
  BY <1>1, <1>2, <1>3, <1>4 DEF Init, TypeOK, Busy

\* The types, and no write is further than its text, for any processes.
THEOREM TypeCorrect == Spec => []TypeOK
  BY TypeInit, TypeStep, PTL DEF Spec

-----------------------------------------------------------------------------
(* It is inductive *)

\* The invariant holds before the first write,
LEMMA IInvInit == Init => IInv
  BY TypeInit DEF Init, IInv, AloneInv, NamesInv, LoneInv, FileInv, ReaderInv, Busy

\* Opening the temporary file disturbs neither the status file nor the file
\* that is read, and makes of two writes none that is alone.
LEMMA OpenStep ==
  ASSUME IInv, NEW w \in Writer, Open(w)
  PROVE  AloneInv' /\ NamesInv' /\ LoneInv' /\ FileInv' /\ ReaderInv'
<1> USE DEF IInv
<1>1. PICK i \in Inode, v \in Value :
        /\ IF tmp = None THEN i \notin Referenced ELSE i = tmp
        /\ tmp' = i
        /\ text' = Emptied(i)
        /\ write' =
            [o \in Writer |->
                IF o = w THEN [fd |-> i, value |-> v, pos |-> 0,
                               alone |-> Others(w) = {}]
                ELSE IF Busy(o) THEN [write[o] EXCEPT !.alone = FALSE]
                ELSE None]
  BY DEF Open
<1>2. i # None /\ i # path /\ i # reader
  BY <1>1, NoneHoleFresh DEF NamesInv, Referenced
<1>3. /\ \A j \in Inode \ {i} : text'[j] = text[j]
      /\ text'[i] = <<>>
  BY <1>1 DEF Emptied, TypeOK
<1>4. /\ write'[w].fd = i /\ write'[w].value = v /\ write'[w].pos = 0
      /\ write'[w].alone <=> \A o \in Writer \ {w} : ~Busy(o)
  BY <1>1 DEF Others
<1>5. ASSUME NEW o \in Writer \ {w}
      PROVE  /\ Busy(o)' => Busy(o)
             /\ Busy(o)' => ~write'[o].alone
  <2>1. CASE Busy(o)
    <3>1. write'[o] = [write[o] EXCEPT !.alone = FALSE]
      BY <1>1, <1>5, <2>1
    <3>2. write[o] \in WriteType
      BY <2>1 DEF TypeOK, Busy
    <3>3. QED
      BY <2>1, <3>1, <3>2 DEF WriteType
  <2>2. CASE ~Busy(o)
    BY <1>1, <1>5, <2>2 DEF Busy
  <2>3. QED
    BY <2>1, <2>2
<1>6. /\ ~clash' => ~clash /\ \A o \in Writer \ {w} : ~Busy(o)
      /\ ~torn' => ~torn /\ \A o \in Writer \ {w} : ~Busy(o)
      /\ path' = path /\ reader' = reader /\ last' = last
  BY DEF Open, Others
<1>7. AloneInv'
  BY <1>4, <1>5, <1>6 DEF AloneInv
<1>8. NamesInv'
  BY <1>1, <1>2, <1>6 DEF NamesInv
<1>9. LoneInv'
  BY <1>1, <1>3, <1>4, <1>5 DEF LoneInv, HoldsPrefix
<1>10. FileInv'
  BY <1>2, <1>3, <1>6 DEF FileInv, TypeOK
<1>11. ReaderInv'
  BY <1>2, <1>3, <1>4, <1>5, <1>6 DEF ReaderInv, TypeOK
<1>12. QED
  BY <1>7, <1>8, <1>9, <1>10, <1>11

\* A cell more in the temporary file, for a lone write; another's may go
\* anywhere, but not while the file is whole.
LEMMA WriteStep ==
  ASSUME IInv, NEW w \in Writer, Write(w)
  PROVE  AloneInv' /\ NamesInv' /\ LoneInv' /\ FileInv' /\ ReaderInv'
<1> USE DEF IInv
<1> DEFINE fd == write[w].fd
<1>1. /\ Busy(w) /\ write[w] \in WriteType /\ fd \in Inode
      /\ write[w].pos \in Nat /\ write[w].value \in Value
  BY DEF Write, TypeOK, Busy, WriteType
<1>2. /\ text'[fd] = Put(text[fd], write[w].pos + 1, write[w].value)
      /\ \A j \in Inode \ {fd} : text'[j] = text[j]
  BY <1>1 DEF Write, TypeOK
<1>3. /\ write'[w].fd = fd
      /\ write'[w].value = write[w].value
      /\ write'[w].alone = write[w].alone
      /\ write'[w].pos = write[w].pos + 1
      /\ \A o \in Writer \ {w} : write'[o] = write[o]
  <2>1. write' = [write EXCEPT ![w].pos = @ + 1]
    BY DEF Write
  <2>2. write'[w] = [write[w] EXCEPT !.pos = @ + 1]
    BY <2>1 DEF TypeOK
  <2>3. QED
    BY <1>1, <2>1, <2>2 DEF WriteType, TypeOK
<1>4. UNCHANGED <<names, history, reading>>
  BY DEF Write
<1>5. \A o \in Writer : Busy(o)' => Busy(o)
  BY <1>1, <1>3 DEF Busy
<1>6. write[w].alone => fd = tmp
  BY <1>1 DEF LoneInv
<1>7. AloneInv'
  BY <1>3, <1>4, <1>5 DEF AloneInv, history
<1>8. NamesInv'
  BY <1>4 DEF NamesInv, names, reading
<1>9. LoneInv'
  <2>1. ASSUME NEW o \in Writer, Busy(o), write[o].alone PROVE o = w
    BY <1>1, <2>1 DEF AloneInv
  <2>2. write[w].alone => HoldsPrefix(text'[tmp], write[w].value, write[w].pos + 1)
    <3>1. write[w].alone => HoldsPrefix(text[tmp], write[w].value, write[w].pos)
      BY <1>1 DEF LoneInv
    <3>2. text[fd] \in Seq(Cell)
      BY <1>1 DEF TypeOK
    <3>3. QED
      BY <1>1, <1>2, <1>6, <3>1, <3>2, PutPrefix
  <2>3. QED
    BY <1>3, <1>4, <1>5, <1>6, <2>1, <2>2 DEF LoneInv, names
<1>10. FileInv'
  <2>1. ~clash => fd # path
    BY <1>1, <1>6, NoneHoleFresh DEF AloneInv, NamesInv
  <2>2. QED
    BY <1>2, <1>4, <2>1 DEF FileInv, TypeOK, names, history
<1>11. ReaderInv'
  <2>1. ~torn /\ reader # None => fd # reader
    BY <1>1, <1>6, NoneHoleFresh DEF ReaderInv, NamesInv
  <2>2. reader # None => reader \in Inode
    BY DEF TypeOK
  <2>3. QED
    BY <1>2, <1>3, <1>4, <1>5, <2>1, <2>2 DEF ReaderInv, reading
<1>12. QED
  BY <1>7, <1>8, <1>9, <1>10, <1>11

\* What a lone write renames is the text of its status.
LEMMA LoneRename ==
  ASSUME IInv, NEW w \in Writer, Rename(w), write[w].alone
  PROVE  /\ tmp \in Inode /\ path' = tmp /\ tmp' = None
         /\ text'[path'] = Text(write[w].value)
<1>1. Busy(w) /\ write[w] \in WriteType /\ write[w].pos = Size[write[w].value]
  BY DEF Rename, Written, IInv, TypeOK, Busy
<1>2. tmp = write[w].fd /\ HoldsPrefix(text[tmp], write[w].value, write[w].pos)
  BY <1>1 DEF IInv, LoneInv
<1>3. tmp \in Inode /\ tmp # None /\ write[w].value \in Value
  BY <1>1, <1>2, NoneHoleFresh DEF WriteType
<1>4. text[tmp] = Text(write[w].value)
  <2>1. text[tmp] \in Seq(Cell)
    BY <1>3 DEF IInv, TypeOK
  <2>2. QED
    BY <1>1, <1>2, <1>3, <2>1, WholePrefix
<1>5. QED
  BY <1>3, <1>4 DEF Rename

\* Without a clash only a lone write is renamed, and nobody else writes.
LEMMA RenameStep ==
  ASSUME IInv, NEW w \in Writer, Rename(w)
  PROVE  AloneInv' /\ NamesInv' /\ LoneInv' /\ FileInv' /\ ReaderInv'
<1> USE DEF IInv
<1>1. Busy(w) /\ write[w] \in WriteType
  BY DEF Rename, TypeOK, Busy
<1>2. /\ ~Busy(w)'
      /\ \A o \in Writer \ {w} : write'[o] = write[o] /\ (Busy(o)' <=> Busy(o))
  BY DEF Rename, TypeOK, Busy
<1>3. ~clash' => write[w].alone
  BY <1>1 DEF Rename, AloneInv
<1>4. write[w].alone => \A o \in Writer : ~Busy(o)'
  BY <1>1, <1>2 DEF AloneInv
<1>5. text' = text /\ reader' = reader /\ torn' = torn
      /\ last' = write[w].value
  BY DEF Rename, reading
<1>6. \A o \in Writer : ~(Busy(o)' /\ write'[o].alone)
  BY <1>1, <1>2 DEF AloneInv
<1>7. AloneInv'
  BY <1>3, <1>4, <1>6 DEF AloneInv
<1>8. NamesInv'
  BY <1>5 DEF Rename, NamesInv, names
<1>9. LoneInv'
  BY <1>6 DEF LoneInv
<1>10. FileInv'
  BY <1>1, <1>3, <1>5, LoneRename, NoneHoleFresh DEF FileInv, WriteType
<1>11. ReaderInv'
  BY <1>2, <1>5 DEF ReaderInv
<1>12. QED
  BY <1>7, <1>8, <1>9, <1>10, <1>11

\* and every step keeps it.
LEMMA IInvStep == IInv /\ [Next]_vars => IInv'
<1> SUFFICES ASSUME IInv, [Next]_vars PROVE IInv'
  OBVIOUS
<1> DEFINE Rest == AloneInv /\ NamesInv /\ LoneInv /\ FileInv /\ ReaderInv
<1>1. TypeOK'
  BY TypeStep DEF IInv
<1>2. ASSUME NEW w \in Writer, Open(w) PROVE Rest'
  BY <1>2, OpenStep
<1>3. ASSUME NEW w \in Writer, Write(w) PROVE Rest'
  BY <1>3, WriteStep
<1>4. ASSUME NEW w \in Writer, Rename(w) PROVE Rest'
  BY <1>4, RenameStep
<1>5. ASSUME NEW w \in Writer, GiveUp(w) PROVE Rest'
  <2>1. /\ ~Busy(w)'
        /\ \A o \in Writer \ {w} : write'[o] = write[o] /\ (Busy(o)' <=> Busy(o))
    BY <1>5 DEF GiveUp, IInv, TypeOK, Busy
  <2>2. UNCHANGED <<path, tmp, text, last, clash, reader, torn>>
    BY <1>5 DEF GiveUp, names, history, reading
  <2>3. AloneInv' /\ NamesInv' /\ LoneInv'
    BY <2>1, <2>2 DEF IInv, AloneInv, NamesInv, LoneInv
  <2>4. FileInv' /\ ReaderInv'
    BY <2>1, <2>2 DEF IInv, FileInv, ReaderInv
  <2>5. QED
    BY <2>3, <2>4
<1>6. CASE ReaderOpen
  <2>1. /\ reader' = path /\ path # None /\ (torn' <=> clash)
        /\ UNCHANGED <<path, tmp, text, write, last, clash>>
    BY <1>6 DEF ReaderOpen, names, history
  <2>2. AloneInv' /\ LoneInv' /\ FileInv'
    BY <2>1 DEF IInv, AloneInv, LoneInv, FileInv, Busy
  <2>3. NamesInv' /\ ReaderInv'
    BY <2>1 DEF IInv, AloneInv, NamesInv, FileInv, ReaderInv, Busy
  <2>4. QED
    BY <1>1, <2>2, <2>3 DEF IInv
<1>7. CASE ReaderDone
  <2>1. reader' = None /\ UNCHANGED <<path, tmp, text, write, last, clash>>
    BY <1>7 DEF ReaderDone, names, history
  <2>2. AloneInv' /\ LoneInv' /\ FileInv'
    BY <2>1 DEF IInv, AloneInv, LoneInv, FileInv, Busy
  <2>3. NamesInv' /\ ReaderInv'
    BY <2>1 DEF IInv, NamesInv, ReaderInv
  <2>4. QED
    BY <1>1, <2>2, <2>3 DEF IInv
<1>8. CASE UNCHANGED vars
  <2>1. UNCHANGED <<path, tmp, text, write, reader, last, clash, torn>>
    BY <1>8 DEF vars, names, history, reading
  <2>2. AloneInv' /\ LoneInv' /\ FileInv'
    BY <2>1 DEF IInv, AloneInv, LoneInv, FileInv, Busy
  <2>3. NamesInv' /\ ReaderInv'
    BY <2>1 DEF IInv, NamesInv, ReaderInv, Busy
  <2>4. QED
    BY <1>1, <2>2, <2>3 DEF IInv
<1>9. QED
  BY <1>1, <1>2, <1>3, <1>4, <1>5, <1>6, <1>7, <1>8 DEF Next, Update, IInv

\* What writers and readers have open and what it holds agree in every reachable
\* state: the invariant is inductive.
THEOREM Invariance == Spec => []IInv
  BY IInvInit, IInvStep, PTL DEF Spec

-----------------------------------------------------------------------------
(* What follows *)

\* Where no two writes overlap the status file is a register, and what a reader
\* opened stays whole while it reads.
THEOREM Register == Spec => []RegisterUnlessClash
<1>1. IInv => RegisterUnlessClash
  <2> SUFFICES ASSUME IInv PROVE RegisterUnlessClash
    OBVIOUS
  <2>1. ASSUME ~clash, path # None PROVE Parsed(path) = last
    BY <2>1, ParsedText DEF IInv, FileInv, TypeOK
  <2>2. ASSUME ~torn, reader # None PROVE Parsed(reader) # None
    <3>1. PICK v \in Value : text[reader] = Text(v)
      BY <2>2 DEF IInv, ReaderInv
    <3>2. Parsed(reader) = v
      BY <2>2, <3>1, ParsedText DEF IInv, TypeOK
    <3>3. QED
      BY <3>2, NoneHoleFresh
  <2>3. QED
    BY <2>1, <2>2 DEF RegisterUnlessClash, IInv, FileInv
<1>2. QED
  BY <1>1, Invariance, PTL

\* A write that no other overlaps leaves its own text, whatever was there.
THEOREM Mends == Spec => LoneWriteMends
<1>1. IInv /\ [Next]_vars =>
        [\A w \in Writer : Rename(w) /\ write[w].alone =>
            path' # None /\ text'[path'] = Text(write[w].value)]_vars
  BY LoneRename, NoneHoleFresh
<1>2. QED
  BY <1>1, Invariance, PTL DEF Spec, LoneWriteMends
=============================================================================
