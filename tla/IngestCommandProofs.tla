-------------------------- MODULE IngestCommandProofs --------------------------
(***************************************************************************)
(* Proofs about IngestCommand for any registry files, sources and edits.   *)
(* Two things are kept along a command: the part of its selection that is  *)
(* behind it is published as it was captured (IsPublished), and each text  *)
(* that can be searched came out of the adapter of its own entry, in the   *)
(* corpus of an entry that load_registry accepts (HasOrigin).              *)
(*                                                                         *)
(* What the adapters make of a holding comes first, for holdings of any    *)
(* size: the loop over the lines of a file by induction on the line it is  *)
(* at, the groups of messages and the window of calls from what At keeps   *)
(* of a sequence.                                                          *)
(***************************************************************************)
EXTENDS IngestCommand, PlacesProofs, TLAPS

AllHoldings == UNION {Holdings[r] : r \in Registries}

\* The capture of the i-th selected source, and its presence in the content.
CaptureOf(i) == Captured(selection[i], seen[selection[i].registry])

Shows(c, entry, records) ==
    records # <<>> =>
        \A n \in Natives :
            LET last == KB!LastUnder(records, n) IN
            c[<<entry.registry, n>>] =
                IF last = {} THEN NoRow
                ELSE <<entry.corpus, records[CHOOSE j \in last : TRUE].body>>

IsPublished(i) == Shows(content, selection[i], CaptureOf(i))

\* What an adapter has at some time made of the source of s.
IsCapturedAs(d, s) ==
    \E entry \in EnabledEntries : \E holding \in Holdings[entry.registry] :
        /\ entry.registry = s[1]
        /\ \E i \in DOMAIN Captured(entry, holding) :
              /\ Captured(entry, holding)[i].native = s[2]
              /\ d = <<entry.corpus, Captured(entry, holding)[i].body>>

HasOrigin(s) == content[s] # NoRow => IsCapturedAs(content[s], s)

SelectionInv ==
    /\ Loads(selection)
    /\ \A i \in DOMAIN selection :
          selection[i].kind \in {SourceKind[selection[i].registry]} \cup (Kinds \ EnabledKinds)
    /\ phase = "write" => pos \in DOMAIN selection
    /\ phase # "idle" => outcome = "none"
    /\ \A i \in DOMAIN selection : i < pos \/ outcome = "done" => IsPublished(i)

CommandInv ==
    /\ TypeOK
    /\ upstream \in [Registries -> AllHoldings]
    /\ seen \in [Registries -> AllHoldings \cup {Nothing}]
    /\ SelectionInv
    /\ \A s \in SourceKeys : HasOrigin(s)

-----------------------------------------------------------------------------
(* What the adapters make of a file, of messages and of calls              *)

\* s adds up the lines of a chunk, a newline for each.
Sizes(s, chunk) ==
    /\ s \in [0..Len(chunk) -> Nat] /\ s[0] = 0
    /\ \A n \in 1..Len(chunk) : s[n] = s[n - 1] + LineSize[chunk[n]] + 1

\* The size of a chunk is what its sizes come to.
LEMMA SizeIsLast ==
    ASSUME NEW chunk \in Seq(Lines), NEW s, Sizes(s, chunk)
    PROVE  Size(chunk) = s[Len(chunk)]
<1> DEFINE upTo == 0..Len(chunk)
           sum(f) == [n \in upTo |-> IF n = 0 THEN 0 ELSE f[n - 1] + LineSize[chunk[n]] + 1]
           size == CHOOSE f : f = sum(f)
<1>1. Size(chunk) = size[Len(chunk)]
  BY DEF Size
<1>2. s = sum(s)
  <2>1. \A n \in upTo : n # 0 => n \in 1..Len(chunk)
    OBVIOUS
  <2> QED BY <2>1 DEF Sizes
<1>3. size = sum(size)
  <2> HIDE DEF sum
  <2> QED BY <1>2
<1> HIDE DEF size
<1> DEFINE T == {n \in Nat : n <= Len(chunk) => size[n] = s[n]}
<1>4. 0 \in T
  BY <1>3 DEF Sizes
<1>5. ASSUME NEW n \in T PROVE n + 1 \in T
  <2> SUFFICES ASSUME n + 1 <= Len(chunk) PROVE size[n + 1] = s[n + 1]
    OBVIOUS
  <2>1. n + 1 \in upTo /\ n + 1 \in 1..Len(chunk) /\ n + 1 # 0 /\ (n + 1) - 1 = n /\ size[n] = s[n]
    OBVIOUS
  <2>2. size[n + 1] = size[n] + LineSize[chunk[n + 1]] + 1
    BY <1>3, <2>1
  <2>3. s[n + 1] = s[n] + LineSize[chunk[n + 1]] + 1
    BY <2>1 DEF Sizes
  <2> QED BY <2>1, <2>2, <2>3
<1>6. T = Nat
  <2>1. T \in SUBSET Nat
    OBVIOUS
  <2> HIDE DEF T
  <2> QED BY <1>4, <1>5, <2>1, Induction
<1> QED BY <1>1, <1>6

\* One more line adds its length and a newline to the sizes.
LEMMA SizesAppend ==
    ASSUME NEW chunk \in Seq(Lines), NEW line \in Lines, NEW s, Sizes(s, chunk)
    PROVE  Sizes([n \in 0..Len(chunk) + 1 |->
                    IF n = Len(chunk) + 1 THEN s[Len(chunk)] + LineSize[line] + 1 ELSE s[n]],
                 Append(chunk, line))
<1> DEFINE len == Len(chunk)
           longer == Append(chunk, line)
           t == [n \in 0..len + 1 |-> IF n = len + 1 THEN s[len] + LineSize[line] + 1 ELSE s[n]]
<1>1. /\ len \in Nat /\ Len(longer) = len + 1 /\ longer[len + 1] = line
      /\ \A n \in 1..len : longer[n] = chunk[n]
  OBVIOUS
<1>2. s \in [0..len -> Nat] /\ s[0] = 0
      /\ \A n \in 1..len : s[n] = s[n - 1] + LineSize[chunk[n]] + 1
  BY DEF Sizes
<1>3. LineSize[line] \in Nat /\ s[len] \in Nat
  BY <1>1, <1>2, AdaptersAssumption
<1> HIDE DEF len, longer
<1>4. t \in [0..len + 1 -> Nat] /\ t[0] = 0
  BY <1>1, <1>2, <1>3
<1>5. ASSUME NEW n \in 1..len + 1 PROVE t[n] = t[n - 1] + LineSize[longer[n]] + 1
  <2>1. n - 1 \in 0..len /\ n - 1 # len + 1 /\ n - 1 \in 0..len + 1 /\ n \in 0..len + 1
    BY <1>1
  <2>2. t[n - 1] = s[n - 1]
    BY <2>1
  <2>3. CASE n = len + 1
    <3>1. n - 1 = len
      BY <1>1, <2>3
    <3> QED BY <1>1, <2>1, <2>2, <2>3, <3>1
  <2>4. CASE n # len + 1
    <3>1. n \in 1..len
      BY <1>1, <2>4
    <3> QED BY <1>1, <1>2, <2>1, <2>2, <2>4, <3>1
  <2> QED BY <2>3, <2>4
<1> HIDE DEF t
<1>6. Sizes(t, longer)
  BY <1>1, <1>4, <1>5 DEF Sizes
<1> QED BY <1>6 DEF t, len, longer

\* Every chunk has sizes.
LEMMA SizesExist ==
    ASSUME NEW chunk \in Seq(Lines)
    PROVE  \E s : Sizes(s, chunk)
<1> DEFINE step == [n \in Nat |-> [v \in Nat |->
                       IF n \in DOMAIN chunk THEN v + LineSize[chunk[n]] + 1 ELSE v]]
<1>1. step \in [Nat -> [Nat -> Nat]]
  <2>1. \A n \in DOMAIN chunk : LineSize[chunk[n]] \in Nat
    BY AdaptersAssumption
  <2> QED BY <2>1
<1>2. PICK f : f \in [Nat -> Nat] /\ f[0] = 0 /\ \A n \in Nat : f[n + 1] = step[n + 1][f[n]]
  <2> HIDE DEF step
  <2>1. \E f : IsRecursive(f, Nat, 0, step)
    BY <1>1, Recursion
  <2> QED BY <2>1 DEF IsRecursive
<1>3. ASSUME NEW n \in 1..Len(chunk) PROVE f[n] = f[n - 1] + LineSize[chunk[n]] + 1
  <2> DEFINE m == n - 1
  <2>1. m \in Nat /\ m + 1 = n /\ n \in Nat /\ n \in DOMAIN chunk
    OBVIOUS
  <2>2. f[m + 1] = step[m + 1][f[m]] /\ f[m] \in Nat
    <3> HIDE DEF m, step
    <3> QED BY <1>2, <2>1
  <2>3. step[n][f[m]] = f[m] + LineSize[chunk[n]] + 1
    <3> HIDE DEF m
    <3> QED BY <2>1, <2>2
  <2> HIDE DEF step
  <2> QED BY <2>1, <2>2, <2>3
<1> DEFINE s == [n \in 0..Len(chunk) |-> f[n]]
<1>4. s \in [0..Len(chunk) -> Nat] /\ s[0] = 0
  BY <1>2
<1>5. \A n \in 1..Len(chunk) : n - 1 \in 0..Len(chunk) /\ n \in 0..Len(chunk)
  OBVIOUS
<1>6. Sizes(s, chunk)
  BY <1>3, <1>4, <1>5 DEF Sizes
<1> QED BY <1>6

\* A line adds its length and a newline to the size of a chunk.
LEMMA SizeAppend ==
    /\ Size(<<>>) = 0
    /\ \A chunk \in Seq(Lines), line \in Lines :
          Size(chunk) \in Nat /\ Size(Append(chunk, line)) = Size(chunk) + LineSize[line] + 1
<1>1. ASSUME NEW chunk \in Seq(Lines), NEW line \in Lines
      PROVE  /\ Size(chunk) \in Nat
             /\ Size(Append(chunk, line)) = Size(chunk) + LineSize[line] + 1
  <2> DEFINE len == Len(chunk)
  <2>1. PICK s : Sizes(s, chunk)
    BY SizesExist
  <2> DEFINE t == [n \in 0..len + 1 |-> IF n = len + 1 THEN s[len] + LineSize[line] + 1 ELSE s[n]]
  <2>2. Sizes(t, Append(chunk, line))
    BY <2>1, SizesAppend
  <2>3. Append(chunk, line) \in Seq(Lines) /\ Len(Append(chunk, line)) = len + 1 /\ len \in Nat
    OBVIOUS
  <2>4. t[len + 1] = s[len] + LineSize[line] + 1
    BY <2>3
  <2> HIDE DEF t
  <2>5. Size(Append(chunk, line)) = t[len + 1]
    BY <2>2, <2>3, SizeIsLast
  <2>6. Size(chunk) = s[len] /\ s[len] \in Nat
    BY <2>1, <2>3, SizeIsLast DEF Sizes
  <2> QED BY <2>4, <2>5, <2>6
<1>2. Size(<<>>) = 0
  <2>1. <<>> \in Seq(Lines) /\ Len(<<>>) = 0
    OBVIOUS
  <2>2. PICK s : Sizes(s, <<>>)
    BY <2>1, SizesExist
  <2> QED BY <2>1, <2>2, SizeIsLast DEF Sizes
<1> QED BY <1>1, <1>2

\* What the loop of _chunks carries from line to line, and what it starts with.
CutStates == [closed : Seq(Seq(Lines)), current : Seq(Lines), size : Nat]
Uncut == [closed |-> <<>>, current |-> <<>>, size |-> 0]

\* A line leaves chunks of lines.
LEMMA AddLineType ==
    ASSUME NEW c \in CutStates, NEW line \in Lines, NEW limit \in Nat
    PROVE  AddLine(c, line, limit) \in CutStates
<1>1. LineSize[line] \in Nat
  BY AdaptersAssumption
<1>2. Append(c.closed, c.current) \in Seq(Seq(Lines)) /\ Append(c.current, line) \in Seq(Lines) /\ <<line>> \in Seq(Lines)
  BY DEF CutStates
<1> DEFINE opens == c.current # <<>> /\ c.size + LineSize[line] + 1 > limit
<1>3. CASE opens
  <2>1. AddLine(c, line, limit) = [closed |-> Append(c.closed, c.current), current |-> <<line>>,
                                   size |-> LineSize[line] + 1]
    BY <1>3 DEF AddLine
  <2> QED BY <1>1, <1>2, <2>1 DEF CutStates
<1>4. CASE ~opens
  <2>1. AddLine(c, line, limit) =
           [c EXCEPT !.current = Append(c.current, line), !.size = c.size + LineSize[line] + 1]
    BY <1>4 DEF AddLine
  <2>2. c.closed \in Seq(Seq(Lines)) /\ c.size + LineSize[line] + 1 \in Nat
    BY <1>1 DEF CutStates
  <2> HIDE DEF opens
  <2> QED BY <1>2, <2>1, <2>2 DEF CutStates
<1> QED BY <1>3, <1>4

\* The recursion of Cut is well-founded: each line is added to what those before
\* it made.
LEMMA CutEquations ==
    ASSUME NEW file \in Seq(Lines), NEW limit \in Nat
    PROVE  LET cut == Cut(file, limit) IN
           /\ cut[0] = Uncut
           /\ \A n \in 1..Len(file) : cut[n] = AddLine(cut[n - 1], file[n], limit)
           /\ \A n \in 0..Len(file) : cut[n] \in CutStates
<1> DEFINE step == [n \in Nat |-> [c \in CutStates |->
                       IF n \in DOMAIN file THEN AddLine(c, file[n], limit) ELSE c]]
           lines == 0..Len(file)
           cut == Cut(file, limit)
<1>1. step \in [Nat -> [CutStates -> CutStates]] /\ Uncut \in CutStates
  <2>1. Uncut \in CutStates
    BY DEF CutStates, Uncut
  <2>2. ASSUME NEW n \in Nat, NEW c \in CutStates
        PROVE  (IF n \in DOMAIN file THEN AddLine(c, file[n], limit) ELSE c) \in CutStates
    BY AddLineType
  <2> QED BY <2>1, <2>2
<1>2. PICK f : f \in [Nat -> CutStates] /\ f[0] = Uncut
                /\ \A n \in Nat : f[n + 1] = step[n + 1][f[n]]
  <2> HIDE DEF step
  <2>1. \E f : IsRecursive(f, CutStates, Uncut, step)
    BY <1>1, Recursion
  <2> QED BY <2>1 DEF IsRecursive
<1>3. ASSUME NEW n \in 1..Len(file) PROVE f[n] = AddLine(f[n - 1], file[n], limit)
  <2> DEFINE m == n - 1
  <2>1. m \in Nat /\ m + 1 = n /\ n \in Nat /\ n \in DOMAIN file
    OBVIOUS
  <2>2. f[m + 1] = step[m + 1][f[m]] /\ f[m] \in CutStates
    <3> HIDE DEF m, step
    <3> QED BY <1>2, <2>1
  <2>3. step[n][f[m]] = AddLine(f[m], file[n], limit)
    <3> HIDE DEF m
    <3> QED BY <2>1, <2>2
  <2> HIDE DEF step
  <2> QED BY <2>1, <2>2, <2>3
<1> HIDE DEF step
<1> DEFINE g == [n \in lines |-> f[n]]
<1>4. g = [n \in lines |-> IF n = 0 THEN Uncut ELSE AddLine(g[n - 1], file[n], limit)]
  <2>1. \A n \in lines : n # 0 => n \in 1..Len(file) /\ n - 1 \in lines
    OBVIOUS
  <2> QED BY <1>2, <1>3, <2>1
<1>5. cut = [n \in lines |-> IF n = 0 THEN Uncut ELSE AddLine(cut[n - 1], file[n], limit)]
  <2>1. cut = CHOOSE c : c = [n \in lines |-> IF n = 0 THEN Uncut ELSE AddLine(c[n - 1], file[n], limit)]
    BY DEF Cut, Uncut
  <2> HIDE DEF cut, g
  <2> QED BY <1>4, <2>1
<1> HIDE DEF cut, g
<1>6. cut[0] = Uncut /\ \A n \in 1..Len(file) : cut[n] = AddLine(cut[n - 1], file[n], limit)
  <2>1. 0 \in lines /\ \A n \in 1..Len(file) : n \in lines /\ n # 0
    OBVIOUS
  <2> HIDE DEF lines
  <2> QED BY <1>5, <2>1
<1>7. \A n \in 0..Len(file) : cut[n] \in CutStates
  <2> DEFINE T == {n \in Nat : n <= Len(file) => cut[n] \in CutStates}
  <2>1. 0 \in T
    BY <1>1, <1>6
  <2>2. ASSUME NEW n \in T PROVE n + 1 \in T
    <3> SUFFICES ASSUME n + 1 <= Len(file) PROVE cut[n + 1] \in CutStates
      OBVIOUS
    <3>1. n + 1 \in 1..Len(file) /\ (n + 1) - 1 = n /\ cut[n] \in CutStates
      OBVIOUS
    <3>2. cut[n + 1] = AddLine(cut[n], file[n + 1], limit)
      BY <1>6, <3>1
    <3> QED BY <3>1, <3>2, AddLineType
  <2>3. T = Nat
    <3>1. T \in SUBSET Nat
      OBVIOUS
    <3> HIDE DEF T
    <3> QED BY <2>1, <2>2, <3>1, Induction
  <2> QED BY <2>3
<1> QED BY <1>6, <1>7 DEF cut

\* The chunks of what was read so far, the open one included.
Texts(c) == Append(c.closed, c.current)

\* The first n lines of a file are in the chunks, cut where they must be.
CutIsFaithful(file, limit, c, n) ==
    /\ FlattenSeq(Texts(c)) = SubSeq(file, 1, n)
    /\ c.size = Size(c.current)
    /\ c.current = <<>> => c.closed = <<>>
    /\ \A i \in DOMAIN Texts(c) : Size(Texts(c)[i]) <= limit \/ Len(Texts(c)[i]) = 1
    /\ \A i \in 2..Len(Texts(c)) :
          Size(Texts(c)[i - 1]) + LineSize[Texts(c)[i][1]] + 1 > limit

\* Nothing is cut of no lines.
LEMMA CutBegins ==
    ASSUME NEW file \in Seq(Lines), NEW limit \in Nat
    PROVE  CutIsFaithful(file, limit, Uncut, 0)
<1>1. Texts(Uncut) = << <<>> >>
  BY DEF Texts, Uncut
<1>2. FlattenSeq(<< <<>> >>) = <<>>
  <2>1. <<>> \in Seq(Seq(Lines)) /\ <<>> \in Seq(Lines) /\ << <<>> >> = Append(<<>>, <<>>)
    OBVIOUS
  <2>2. FlattenSeq(<<>>) = <<>>
    BY DEF FlattenSeq
  <2>3. FlattenSeq(Append(<<>>, <<>>)) = <<>> \o <<>>
    BY <2>1, <2>2, FlatAppend
  <2> QED BY <2>1, <2>3
<1>3. SubSeq(file, 1, 0) = <<>>
  OBVIOUS
<1>4. Size(<<>>) = 0
  BY SizeAppend
<1>5. DOMAIN << <<>> >> = {1} /\ << <<>> >>[1] = <<>> /\ Len(<< <<>> >>) = 1
  OBVIOUS
<1>6. Len(Texts(Uncut)) = 1 /\ DOMAIN Texts(Uncut) = {1} /\ Texts(Uncut)[1] = <<>>
      /\ Uncut.size = 0 /\ Uncut.current = <<>> /\ Uncut.closed = <<>>
  BY <1>1, <1>5 DEF Uncut
<1>7. FlattenSeq(Texts(Uncut)) = SubSeq(file, 1, 0)
  BY <1>1, <1>2, <1>3
<1>8. \A i \in DOMAIN Texts(Uncut) : Size(Texts(Uncut)[i]) <= limit
  BY <1>4, <1>6
<1> QED BY <1>4, <1>6, <1>7, <1>8 DEF CutIsFaithful

\* One more line keeps the cut faithful.
LEMMA CutGoesOn ==
    ASSUME NEW file \in Seq(Lines), NEW limit \in Nat, NEW c \in CutStates,
           NEW n \in Nat, n + 1 <= Len(file), CutIsFaithful(file, limit, c, n)
    PROVE  CutIsFaithful(file, limit, AddLine(c, file[n + 1], limit), n + 1)
<1> DEFINE line == file[n + 1]
           d == AddLine(c, line, limit)
           opens == c.current # <<>> /\ c.size + LineSize[line] + 1 > limit
<1>1. line \in Lines /\ LineSize[line] \in Nat
  BY AdaptersAssumption
<1>2. /\ c.closed \in Seq(Seq(Lines)) /\ c.current \in Seq(Lines) /\ c.size \in Nat
      /\ Texts(c) \in Seq(Seq(Lines))
  BY DEF CutStates, Texts
<1>3. SubSeq(file, 1, n + 1) = Append(SubSeq(file, 1, n), line)
  OBVIOUS
<1>4. SubSeq(file, 1, n) \in Seq(Lines)
  OBVIOUS
<1>5. \A chunk \in Seq(Lines) : Size(chunk) \in Nat
  BY <1>1, SizeAppend
<1> HIDE DEF line
<1>6. CASE opens
  <2>1. d = [closed |-> Append(c.closed, c.current), current |-> <<line>>,
             size |-> LineSize[line] + 1]
    BY <1>6 DEF AddLine
  <2>2. /\ d.closed = Texts(c) /\ d.current = <<line>> /\ d.size = LineSize[line] + 1
        /\ Texts(d) = Append(Texts(c), <<line>>)
    BY <2>1 DEF Texts
  <2>3. FlattenSeq(Texts(d)) = SubSeq(file, 1, n + 1)
    <3>1. <<line>> \in Seq(Lines)
      BY <1>1
    <3>2. FlattenSeq(Texts(d)) = SubSeq(file, 1, n) \o <<line>>
      BY <1>2, <2>2, <3>1, FlatAppend DEF CutIsFaithful
    <3> QED BY <1>1, <1>3, <1>4, <3>2
  <2>4. d.size = Size(d.current)
    <3>1. <<line>> = Append(<<>>, line) /\ <<>> \in Seq(Lines)
      BY <1>1
    <3>2. Size(Append(<<>>, line)) = Size(<<>>) + LineSize[line] + 1 /\ Size(<<>>) = 0
      BY <1>1, <3>1, SizeAppend
    <3> QED BY <1>1, <2>2, <3>1, <3>2
  <2> DEFINE len == Len(Texts(c))
  <2>5. /\ len \in Nat /\ DOMAIN Texts(d) = 1..len + 1 /\ Len(Texts(d)) = len + 1
        /\ Texts(d)[len + 1] = <<line>> /\ \A i \in 1..len : Texts(d)[i] = Texts(c)[i]
        /\ DOMAIN Texts(c) = 1..len /\ Texts(c)[len] = c.current /\ len # 0
    BY <1>2, <2>2 DEF Texts
  <2> HIDE DEF len, d
  <2>6. ASSUME NEW i \in DOMAIN Texts(d) PROVE Size(Texts(d)[i]) <= limit \/ Len(Texts(d)[i]) = 1
    <3>1. CASE i = len + 1
      BY <2>5, <3>1
    <3>2. CASE i # len + 1
      <4>1. i \in 1..len
        BY <2>5, <3>2
      <4> QED BY <2>5, <4>1 DEF CutIsFaithful
    <3> QED BY <3>1, <3>2
  <2>7. ASSUME NEW i \in 2..Len(Texts(d))
        PROVE  Size(Texts(d)[i - 1]) + LineSize[Texts(d)[i][1]] + 1 > limit
    <3>1. CASE i = len + 1
      <4>1. i - 1 = len /\ Texts(d)[i][1] = line /\ Texts(d)[i - 1] = c.current
        BY <2>5, <3>1
      <4> QED BY <1>6, <4>1 DEF CutIsFaithful
    <3>2. CASE i # len + 1
      <4>1. i \in 2..len /\ i \in 1..len /\ i - 1 \in 1..len
        BY <2>5, <3>2
      <4> QED BY <2>5, <4>1 DEF CutIsFaithful, len
    <3> QED BY <3>1, <3>2
  <2>8. d.current # <<>>
    BY <2>2
  <2> QED BY <2>3, <2>4, <2>6, <2>7, <2>8 DEF CutIsFaithful, d, line
<1>7. CASE ~opens
  <2>1. d = [c EXCEPT !.current = Append(c.current, line), !.size = c.size + LineSize[line] + 1]
    BY <1>7 DEF AddLine
  <2>2. /\ d.closed = c.closed /\ d.current = Append(c.current, line)
        /\ d.size = c.size + LineSize[line] + 1
        /\ Texts(d) = Append(c.closed, Append(c.current, line))
    BY <2>1 DEF Texts, CutStates
  <2>3. FlattenSeq(Texts(d)) = SubSeq(file, 1, n + 1)
    <3>1. Append(c.current, line) \in Seq(Lines)
      BY <1>1, <1>2
    <3>2. /\ FlattenSeq(Texts(d)) = FlattenSeq(c.closed) \o Append(c.current, line)
          /\ FlattenSeq(Texts(c)) = FlattenSeq(c.closed) \o c.current
          /\ FlattenSeq(c.closed) \in Seq(Lines)
      BY <1>2, <2>2, <3>1, FlatAppend DEF Texts
    <3>3. \A s, t \in Seq(Lines) : s \o Append(t, line) = Append(s \o t, line)
      BY <1>1
    <3>4. FlattenSeq(Texts(d)) = Append(SubSeq(file, 1, n), line)
      BY <1>2, <3>2, <3>3 DEF CutIsFaithful
    <3> QED BY <1>3, <3>4
  <2>4. d.size = Size(d.current)
    BY <1>1, <1>2, <2>2, SizeAppend DEF CutIsFaithful
  <2> DEFINE len == Len(c.closed)
  <2>5. /\ len \in Nat /\ DOMAIN Texts(d) = 1..len + 1 /\ Len(Texts(d)) = len + 1
        /\ DOMAIN Texts(c) = 1..len + 1 /\ Len(Texts(c)) = len + 1
        /\ Texts(d)[len + 1] = Append(c.current, line) /\ Texts(c)[len + 1] = c.current
        /\ \A i \in 1..len : Texts(d)[i] = Texts(c)[i]
    BY <1>1, <1>2, <2>2 DEF Texts
  <2>6. c.current # <<>> => Append(c.current, line)[1] = c.current[1]
    BY <1>2
  <2>7. c.current = <<>> => len = 0 /\ Len(Append(c.current, line)) = 1
    BY DEF CutIsFaithful
  <2> HIDE DEF len, d
  <2>8. ASSUME NEW i \in DOMAIN Texts(d) PROVE Size(Texts(d)[i]) <= limit \/ Len(Texts(d)[i]) = 1
    <3>1. CASE i = len + 1
      <4>1. CASE c.current = <<>>
        BY <2>5, <2>7, <3>1, <4>1
      <4>2. CASE c.current # <<>>
        <5>1. c.size + LineSize[line] + 1 <= limit
          BY <1>1, <1>2, <1>7, <4>2
        <5> QED BY <2>2, <2>4, <2>5, <3>1, <5>1
      <4> QED BY <4>1, <4>2
    <3>2. CASE i # len + 1
      <4>1. i \in 1..len /\ i \in DOMAIN Texts(c)
        BY <2>5, <3>2
      <4> QED BY <2>5, <4>1 DEF CutIsFaithful
    <3> QED BY <3>1, <3>2
  <2>9. ASSUME NEW i \in 2..Len(Texts(d))
        PROVE  Size(Texts(d)[i - 1]) + LineSize[Texts(d)[i][1]] + 1 > limit
    <3>1. len # 0 /\ i \in 2..Len(Texts(c)) /\ i - 1 \in 1..len
      BY <2>5
    <3>2. Texts(d)[i - 1] = Texts(c)[i - 1]
      BY <2>5, <3>1
    <3>3. Texts(d)[i][1] = Texts(c)[i][1]
      <4>1. CASE i = len + 1
        BY <2>5, <2>6, <2>7, <3>1, <4>1
      <4>2. CASE i # len + 1
        <5>1. i \in 1..len
          BY <2>5, <4>2
        <5> QED BY <2>5, <5>1
      <4> QED BY <4>1, <4>2
    <3> QED BY <3>1, <3>2, <3>3 DEF CutIsFaithful
  <2>10. d.current # <<>>
    <3>1. Len(Append(c.current, line)) # 0 /\ Len(<<>>) = 0
      BY <1>1, <1>2
    <3>2. d.current = Append(c.current, line)
      BY <2>2
    <3> QED BY <3>1, <3>2
  <2> QED BY <2>3, <2>4, <2>8, <2>9, <2>10 DEF CutIsFaithful, d, line
<1> QED BY <1>6, <1>7

\* The chunks of a file are the file, cut where they must be.
LEMMA FileIsCut ==
    ASSUME NEW file \in Seq(Lines), NEW limit \in Nat
    PROVE  LET chunks == Chunks(file, limit) IN
           /\ chunks \in Seq(Seq(Lines))
           /\ FlattenSeq(chunks) = file
           /\ \A i \in DOMAIN chunks : Size(chunks[i]) <= limit \/ Len(chunks[i]) = 1
           /\ \A i \in 2..Len(chunks) : Size(chunks[i - 1]) + LineSize[chunks[i][1]] + 1 > limit
<1> DEFINE cut == Cut(file, limit)
           T == {n \in Nat : n <= Len(file) => CutIsFaithful(file, limit, cut[n], n)}
           last == cut[Len(file)]
<1>1. /\ cut[0] = Uncut
      /\ \A n \in 1..Len(file) : cut[n] = AddLine(cut[n - 1], file[n], limit)
      /\ \A n \in 0..Len(file) : cut[n] \in CutStates
  BY CutEquations
<1>2. Chunks(file, limit) = IF last.current = <<>> THEN << <<>> >> ELSE Texts(last)
  BY DEF Chunks, Texts
<1> HIDE DEF cut
<1>3. 0 \in T
  BY <1>1, CutBegins
<1>4. ASSUME NEW n \in T PROVE n + 1 \in T
  <2> SUFFICES ASSUME n + 1 <= Len(file) PROVE CutIsFaithful(file, limit, cut[n + 1], n + 1)
    OBVIOUS
  <2>1. n + 1 \in 1..Len(file) /\ (n + 1) - 1 = n /\ n \in 0..Len(file) /\ n \in Nat
    OBVIOUS
  <2>2. cut[n + 1] = AddLine(cut[n], file[n + 1], limit) /\ cut[n] \in CutStates
        /\ CutIsFaithful(file, limit, cut[n], n)
    BY <1>1, <2>1
  <2> QED BY <2>1, <2>2, CutGoesOn
<1>5. T = Nat
  <2>1. T \in SUBSET Nat
    OBVIOUS
  <2> HIDE DEF T
  <2> QED BY <1>3, <1>4, <2>1, Induction
<1>6. Len(file) \in Nat /\ SubSeq(file, 1, Len(file)) = file
  OBVIOUS
<1>7. last \in CutStates /\ CutIsFaithful(file, limit, last, Len(file))
  BY <1>1, <1>5, <1>6
<1> HIDE DEF last
<1>8. Chunks(file, limit) = Texts(last)
  <2>1. last.current = <<>> => Texts(last) = Append(<<>>, <<>>)
    BY <1>7 DEF CutIsFaithful, Texts
  <2>2. Append(<<>>, <<>>) = << <<>> >>
    OBVIOUS
  <2> QED BY <1>2, <2>1, <2>2
<1>9. Texts(last) \in Seq(Seq(Lines))
  BY <1>7 DEF CutStates, Texts
<1> QED BY <1>6, <1>7, <1>8, <1>9 DEF CutIsFaithful

\* A list without its repetitions has the same elements, each of them once.
LEMMA DistinctElements ==
    ASSUME NEW T, NEW seq \in Seq(T)
    PROVE  /\ Distinct(seq) \in Seq(T)
           /\ ToSet(Distinct(seq)) = ToSet(seq)
           /\ \A k, l \in DOMAIN Distinct(seq) : Distinct(seq)[k] = Distinct(seq)[l] => k = l
           /\ Len(Distinct(seq)) = Cardinality(ToSet(Distinct(seq)))
<1> DEFINE S == {i \in DOMAIN seq : \A j \in 1..i - 1 : seq[j] # seq[i]}
           D == Distinct(seq)
<1>0. D = At(seq, S) /\ S \in SUBSET DOMAIN seq /\ DOMAIN seq = 1..Len(seq) /\ Len(seq) \in Nat
  BY DEF Distinct
<1>1. /\ D \in Seq(T) /\ DOMAIN D = 1..Len(D) /\ Len(D) \in Nat
      /\ \A k \in DOMAIN D : Nth(S, k) \in S /\ D[k] = seq[Nth(S, k)]
      /\ \A i \in S : Rank(S, i) \in DOMAIN D /\ D[Rank(S, i)] = seq[i]
      /\ \A k, l \in DOMAIN D : Nth(S, k) = Nth(S, l) => k = l
  <2> HIDE DEF S, D
  <2>1. At(seq, S) \in Seq(T)
    BY <1>0, AtPlaces
  <2> QED BY <1>0, <2>1, AtPlaces
<1>2. ASSUME NEW i \in DOMAIN seq PROVE \E f \in S : seq[f] = seq[i]
  <2> DEFINE same == {j \in DOMAIN seq : seq[j] = seq[i]}
  <2>1. PICK f \in same : \A j \in same : f <= j
    <3>1. same \in SUBSET Nat /\ same # {}
      BY <1>0
    <3> HIDE DEF same
    <3> QED BY <3>1, Least
  <2>2. \A j \in 1..f - 1 : seq[j] # seq[f]
    <3> SUFFICES ASSUME NEW j \in 1..f - 1, seq[j] = seq[f] PROVE FALSE
      OBVIOUS
    <3>1. j \in DOMAIN seq /\ ~(f <= j)
      BY <1>0, <2>1
    <3> QED BY <2>1, <3>1
  <2> QED BY <2>1, <2>2
<1>3. \A i, j \in S : seq[i] = seq[j] => i = j
  BY <1>0
<1> HIDE DEF S, D
<1>4. ToSet(D) = ToSet(seq)
  <2>1. \A k \in DOMAIN D : \E i \in DOMAIN seq : D[k] = seq[i]
    BY <1>0, <1>1
  <2>2. \A i \in DOMAIN seq : \E k \in DOMAIN D : D[k] = seq[i]
    BY <1>1, <1>2
  <2> QED BY <2>1, <2>2 DEF ToSet
<1>5. \A k, l \in DOMAIN D : D[k] = D[l] => k = l
  BY <1>1, <1>3
<1>6. Len(D) = Cardinality(ToSet(D))
  BY <1>1, <1>5, ElementsOnce
<1> QED BY <1>1, <1>4, <1>5, <1>6 DEF D

\* A conversation is the messages of its rows, each once.
LEMMA ConversationElements ==
    ASSUME NEW rows \in Seq(MailRows), NEW native
    PROVE  LET text == Conversation(rows, native)
           IN /\ text \in Seq(Lines)
              /\ ToSet(text) = {rows[j].message :
                                   j \in {i \in DOMAIN rows : rows[i].conversation = native}}
              /\ Len(text) = Cardinality(ToSet(text))
<1> DEFINE S   == {i \in DOMAIN rows : rows[i].conversation = native}
           own == At(rows, S)
           messages == [i \in DOMAIN own |-> own[i].message]
<1>1. /\ own \in Seq(MailRows)
      /\ \A k \in DOMAIN own : Nth(S, k) \in S /\ own[k] = rows[Nth(S, k)]
      /\ \A i \in S : Rank(S, i) \in DOMAIN own /\ own[Rank(S, i)] = rows[i]
  <2>1. S \in SUBSET DOMAIN rows
    OBVIOUS
  <2> HIDE DEF S
  <2> QED BY <2>1, AtPlaces
<1>2. Conversation(rows, native) = Distinct(messages)
  BY DEF Conversation
<1> HIDE DEF S, own
<1>3. messages \in Seq(Lines) /\ DOMAIN messages = DOMAIN own
  <2>1. DOMAIN own = 1..Len(own) /\ Len(own) \in Nat /\ \A i \in DOMAIN own : own[i] \in MailRows
    BY <1>1
  <2>2. \A i \in DOMAIN own : own[i].message \in Lines
    BY <2>1 DEF MailRows
  <2> QED BY <2>1, <2>2
<1>4. ToSet(messages) = {rows[j].message : j \in S}
  <2>1. \A k \in DOMAIN own : \E j \in S : messages[k] = rows[j].message
    BY <1>1
  <2>2. \A j \in S : \E k \in DOMAIN own : messages[k] = rows[j].message
    BY <1>1
  <2> QED BY <1>3, <2>1, <2>2 DEF ToSet
<1> HIDE DEF messages
<1>5. /\ Distinct(messages) \in Seq(Lines) /\ ToSet(Distinct(messages)) = ToSet(messages)
      /\ Len(Distinct(messages)) = Cardinality(ToSet(Distinct(messages)))
  BY <1>3, DistinctElements
<1> QED BY <1>2, <1>4, <1>5 DEF S

\* The records of a Front export are its conversations of relevant messages,
\* each once, with the relevant messages of the conversation.
LEMMA FrontIsWhole ==
    ASSUME NEW rows \in Seq(MailRows)
    PROVE  LET records == FrontRecords(rows)
               kept    == {i \in DOMAIN rows : rows[i].message \in Relevant}
           IN /\ DOMAIN records = 1..Len(records) /\ Len(records) \in Nat
              /\ {records[i].native : i \in DOMAIN records} = {rows[i].conversation : i \in kept}
              /\ \A i, j \in DOMAIN records : records[i].native = records[j].native => i = j
              /\ \A i \in DOMAIN records :
                    /\ ToSet(records[i].body) =
                          {rows[j].message :
                              j \in {k \in kept : rows[k].conversation = records[i].native}}
                    /\ Len(records[i].body) = Cardinality(ToSet(records[i].body))
<1> DEFINE S       == {i \in DOMAIN rows : rows[i].message \in Relevant}
           kept    == At(rows, S)
           ids     == [i \in DOMAIN kept |-> kept[i].conversation]
           natives == Distinct(ids)
           records == FrontRecords(rows)
<1>1. /\ kept \in Seq(MailRows)
      /\ \A k \in DOMAIN kept : Nth(S, k) \in S /\ kept[k] = rows[Nth(S, k)]
      /\ \A i \in S : Rank(S, i) \in DOMAIN kept /\ kept[Rank(S, i)] = rows[i]
  <2>1. S \in SUBSET DOMAIN rows
    OBVIOUS
  <2> HIDE DEF S
  <2> QED BY <2>1, AtPlaces
<1>2. records = [i \in DOMAIN natives |->
                    [native |-> natives[i], body |-> Conversation(kept, natives[i])]]
  BY DEF FrontRecords
<1> HIDE DEF S, kept
<1>3. ids \in Seq(Natives) /\ DOMAIN ids = DOMAIN kept
  <2>1. DOMAIN kept = 1..Len(kept) /\ Len(kept) \in Nat
        /\ \A i \in DOMAIN kept : kept[i] \in MailRows
    BY <1>1
  <2>2. \A i \in DOMAIN kept : kept[i].conversation \in Natives
    BY <2>1 DEF MailRows
  <2> QED BY <2>1, <2>2
<1>4. ToSet(ids) = {rows[i].conversation : i \in S}
  <2>1. \A k \in DOMAIN kept : \E j \in S : ids[k] = rows[j].conversation
    BY <1>1
  <2>2. \A j \in S : \E k \in DOMAIN kept : ids[k] = rows[j].conversation
    BY <1>1
  <2> QED BY <1>3, <2>1, <2>2 DEF ToSet
<1> HIDE DEF ids
<1>5. /\ natives \in Seq(Natives) /\ ToSet(natives) = ToSet(ids)
      /\ \A k, l \in DOMAIN natives : natives[k] = natives[l] => k = l
  BY <1>3, DistinctElements
<1> HIDE DEF natives, records
<1>6. /\ DOMAIN records = DOMAIN natives
      /\ \A i \in DOMAIN records : /\ records[i].native = natives[i]
                                   /\ records[i].body = Conversation(kept, natives[i])
  BY <1>2
<1>7. DOMAIN records = 1..Len(records) /\ Len(records) \in Nat
  <2>1. DOMAIN natives = 1..Len(natives) /\ Len(natives) \in Nat
    BY <1>5
  <2>2. records \in Seq({records[i] : i \in DOMAIN records})
    BY <1>2, <1>6, <2>1
  <2> QED BY <2>2
<1>8. {records[i].native : i \in DOMAIN records} = {rows[i].conversation : i \in S}
  <2>1. {records[i].native : i \in DOMAIN records} = ToSet(natives)
    BY <1>6 DEF ToSet
  <2> QED BY <1>4, <1>5, <2>1
<1>9. ASSUME NEW i \in DOMAIN records
      PROVE  /\ ToSet(records[i].body) =
                   {rows[j].message : j \in {k \in S : rows[k].conversation = records[i].native}}
             /\ Len(records[i].body) = Cardinality(ToSet(records[i].body))
  <2> DEFINE n == records[i].native
  <2>1. records[i].body = Conversation(kept, n)
    BY <1>6
  <2> HIDE DEF n
  <2>2. /\ ToSet(records[i].body) =
              {kept[j].message : j \in {k \in DOMAIN kept : kept[k].conversation = n}}
        /\ Len(records[i].body) = Cardinality(ToSet(records[i].body))
    BY <1>1, <2>1, ConversationElements
  <2>3. \A k \in DOMAIN kept : kept[k].conversation = n =>
           \E j \in S : rows[j].conversation = n /\ rows[j].message = kept[k].message
    BY <1>1
  <2>4. \A j \in S : rows[j].conversation = n =>
           \E k \in DOMAIN kept : kept[k].conversation = n /\ kept[k].message = rows[j].message
    BY <1>1
  <2>5. {kept[j].message : j \in {k \in DOMAIN kept : kept[k].conversation = n}}
           = {rows[j].message : j \in {k \in S : rows[k].conversation = n}}
    BY <2>3, <2>4
  <2> QED BY <2>2, <2>5 DEF n
<1>10. \A i, j \in DOMAIN records : records[i].native = records[j].native => i = j
  BY <1>5, <1>6
<1> QED BY <1>7, <1>8, <1>9, <1>10 DEF S, records

\* The records of the calls are the rows, among the OmeLimit newest with a
\* transcript, that are complete and relevant.
LEMMA CallsAreKept ==
    ASSUME NEW rows \in Seq(CallRows), NEW i \in DOMAIN rows,
           rows[i].complete, IsRelevant(rows[i].transcript), Place(rows, i) <= OmeLimit
    PROVE  \E k \in DOMAIN OmeRecords(rows) : OmeRecords(rows)[k].native = rows[i].call
<1> DEFINE present == {j \in DOMAIN rows : rows[j].transcript # <<>>}
           window  == {j \in present : Rank(present, j) <= OmeLimit}
           kept    == {j \in window : rows[j].complete /\ IsRelevant(rows[j].transcript)}
           record(j) == [native |-> rows[j].call, body |-> rows[j].transcript]
           all     == [j \in DOMAIN rows |-> record(j)]
<1>1. OmeRecords(rows) = At(all, kept)
  BY DEF OmeRecords
<1>2. DOMAIN rows = 1..Len(rows) /\ Len(rows) \in Nat
  OBVIOUS
<1>3. i \in kept
  <2>1. rows[i].transcript # <<>>
    BY DEF IsRelevant
  <2>2. {j \in present : j <= i} = {j \in 1..i : rows[j].transcript # <<>>}
    BY <1>2
  <2>3. Rank(present, i) <= OmeLimit
    <3> HIDE DEF present
    <3> QED BY <2>2 DEF Rank, Place
  <2> HIDE DEF present
  <2> QED BY <2>1, <2>3 DEF present
<1>4. all \in Seq({record(j) : j \in DOMAIN rows}) /\ DOMAIN all = DOMAIN rows
  BY <1>2
<1>5. kept \in SUBSET DOMAIN all
  BY <1>4
<1>6. all[i].native = rows[i].call
  OBVIOUS
<1> HIDE DEF kept, all, record
<1>7. Rank(kept, i) \in DOMAIN At(all, kept) /\ At(all, kept)[Rank(kept, i)] = all[i]
  BY <1>3, <1>4, <1>5, AtPlaces
<1> QED BY <1>1, <1>6, <1>7

-----------------------------------------------------------------------------
(* Entries and captures                                                    *)

\* The abstract knowledge base has the keys of this module.
LEMMA SameKeys ==
    /\ KB!SourceKeys = SourceKeys
    /\ KB!DocumentKeys = DocumentKeys
BY DEF KB!SourceKeys, SourceKeys, KB!DocumentKeys, DocumentKeys, KB!Corpora, Corpora,
       KB!Public, Public, KB!Internal, Internal

\* An entry of an accepted file whose kind is enabled is one the adapters know.
LEMMA AcceptedEntry ==
    ASSUME CommandInv, NEW i \in DOMAIN selection, selection[i].kind \in EnabledKinds
    PROVE  selection[i] \in EnabledEntries
<1>1. selection[i] \in Entries
  BY DEF CommandInv, TypeOK
<1>2. /\ selection[i].located /\ selection[i].chunkChars \in ChunkLimits
      /\ selection[i].kind = "ome_transcripts" => selection[i].corpus = Internal
      /\ selection[i].kind = SourceKind[selection[i].registry]
  BY DEF CommandInv, SelectionInv, Loads
<1>3. selection[i] \in [registry : Registries, kind : EnabledKinds, corpus : Corpora,
                        located : {TRUE}, path : Paths, chunkChars : ChunkLimits]
  BY <1>1, <1>2 DEF Entries
<1> QED BY <1>2, <1>3 DEF EnabledEntries

\* A capture that waits to be written is a sequence of records, made of what
\* the source held.
LEMMA WaitingCapture ==
    ASSUME CommandInv, phase = "write"
    PROVE  /\ pos \in DOMAIN selection
           /\ Entry \in EnabledEntries
           /\ Entry.registry \in Registries /\ Entry.corpus \in Corpora
           /\ seen[Entry.registry] \in Holdings[Entry.registry]
           /\ Captured(Entry, seen[Entry.registry]) \in Seq(Records)
<1>1. pos \in DOMAIN selection /\ Entry.kind \in EnabledKinds /\ seen[Entry.registry] # Nothing
  BY DEF CommandInv, SelectionInv, TypeOK
<1>2. Entry \in EnabledEntries
  BY <1>1, AcceptedEntry DEF Entry
<1>3. Entry.registry \in Registries /\ Entry.corpus \in Corpora
  BY <1>2 DEF EnabledEntries
<1>4. seen[Entry.registry] \in Holdings[Entry.registry]
  BY <1>1, <1>3 DEF CommandInv, TypeOK
<1> QED BY <1>1, <1>2, <1>3, <1>4, RecordsAssumption

\* The record that is published under a native id is one of the capture.
LEMMA PublishedRecord ==
    ASSUME NEW records \in Seq(Records), NEW n, KB!LastUnder(records, n) # {}
    PROVE  LET i == CHOOSE i \in KB!LastUnder(records, n) : TRUE
           IN i \in DOMAIN records /\ records[i].native = n /\ records[i] \in Records
<1> DEFINE i == CHOOSE i \in KB!LastUnder(records, n) : TRUE
<1>1. i \in KB!LastUnder(records, n)
  OBVIOUS
<1>2. i \in DOMAIN records /\ records[i].native = n
  BY <1>1 DEF KB!LastUnder
<1> QED BY <1>2

\* A write replaces what its entry published by its capture, and nothing else.
LEMMA WriteEffect ==
    ASSUME CommandInv, Write, NEW records, records = Captured(Entry, seen[Entry.registry])
    PROVE  /\ records = <<>> => content' = content
           /\ \A s \in SourceKeys : s[1] # Entry.registry => content'[s] = content[s]
           /\ records # <<>> => \A s \in SourceKeys : s[1] = Entry.registry =>
                 content'[s] = IF KB!LastUnder(records, s[2]) = {} THEN NoRow
                               ELSE <<Entry.corpus,
                                      records[CHOOSE i \in KB!LastUnder(records, s[2]) : TRUE].body>>
           /\ KB!TypeOK'
<1>1. records \in Seq(Records) /\ Entry.corpus \in Corpora
  BY WaitingCapture DEF Write
<1>2. content \in [SourceKeys -> DocumentKeys \cup {NoRow}]
  BY SameKeys DEF CommandInv, TypeOK, KB!TypeOK
<1>3. CASE records = <<>>
  <2>1. content' = content
    BY <1>3 DEF Write
  <2> QED BY <1>3, <2>1 DEF CommandInv, TypeOK, KB!TypeOK
<1>4. CASE records # <<>>
  <2> DEFINE def == [registry |-> Entry.registry, corpus |-> Entry.corpus]
             last(s) == CHOOSE i \in KB!LastUnder(records, s[2]) : TRUE
  <2>1. KB!Publish(def, records)
    BY <1>4 DEF Write
  <2>2. content' = [s \in SourceKeys |->
          IF s[1] # Entry.registry THEN content[s]
          ELSE IF KB!LastUnder(records, s[2]) = {} THEN NoRow
          ELSE <<Entry.corpus, records[last(s)].body>>]
    BY <2>1, SameKeys DEF KB!Publish
  <2>3. ASSUME NEW s \in SourceKeys, KB!LastUnder(records, s[2]) # {}
        PROVE  <<Entry.corpus, records[last(s)].body>> \in DocumentKeys
    <3>1. records[last(s)] \in Records
      BY <1>1, <2>3, PublishedRecord
    <3> QED BY <1>1, <3>1 DEF Records, DocumentKeys
  <2> HIDE DEF last
  <2>4. content' \in [SourceKeys -> DocumentKeys \cup {NoRow}]
    BY <1>2, <2>2, <2>3
  <2>5. KB!TypeOK'
    BY <2>4, SameKeys DEF KB!TypeOK
  <2> QED BY <1>4, <2>2, <2>5 DEF last
<1> QED BY <1>3, <1>4

-----------------------------------------------------------------------------
(* The steps                                                               *)

\* A command that is not started, or raises, leaves nothing to answer for.
LEMMA EndKeeps ==
    ASSUME CommandInv, End("failed"), UNCHANGED <<content, upstream>>
    PROVE  CommandInv'
<1>1. /\ phase' = "idle" /\ selection' = <<>> /\ pos' = 1 /\ outcome' = "failed"
      /\ seen' = [r \in Registries |-> Nothing]
  BY DEF End
<1>2. DOMAIN selection' = {} /\ Len(selection') = 0 /\ selection' \in Seq(Entries)
  BY <1>1
<1>3. TypeOK'
  BY <1>1, <1>2 DEF CommandInv, TypeOK, KB!TypeOK
<1>4. SelectionInv'
  BY <1>1, <1>2 DEF SelectionInv, Loads
<1>5. seen' \in [Registries -> AllHoldings \cup {Nothing}]
      /\ upstream' \in [Registries -> AllHoldings]
  BY <1>1 DEF CommandInv
<1>6. \A s \in SourceKeys : HasOrigin(s)'
  BY DEF CommandInv, HasOrigin, IsCapturedAs
<1> QED BY <1>3, <1>4, <1>5, <1>6 DEF CommandInv

\* A source that changes under the command changes nothing that was captured.
LEMMA EditKeeps ==
    ASSUME CommandInv, NEW r \in Registries, NEW holding \in Holdings[r], Edit(r, holding)
    PROVE  CommandInv'
<1>1. /\ upstream' = [upstream EXCEPT ![r] = holding]
      /\ UNCHANGED <<content, phase, selection, pos, seen, outcome>>
  BY DEF Edit
<1>2. upstream' \in [Registries -> AllHoldings]
      /\ \A q \in Registries : upstream'[q] \in Holdings[q]
  BY <1>1 DEF CommandInv, TypeOK, AllHoldings
<1>3. TypeOK'
  BY <1>1, <1>2 DEF CommandInv, TypeOK, KB!TypeOK, Entry
<1>4. SelectionInv'
  BY <1>1 DEF CommandInv, SelectionInv, IsPublished, CaptureOf
<1>5. \A s \in SourceKeys : HasOrigin(s)'
  BY <1>1 DEF CommandInv, HasOrigin, IsCapturedAs
<1> QED BY <1>1, <1>2, <1>3, <1>4, <1>5 DEF CommandInv

\* What a command selects of an accepted file would be accepted by itself.
LEMMA SelectionLoads ==
    ASSUME NEW file \in Files, Loads(file), NEW choice
    PROVE  LET chosen == Selected(file, choice)
           IN /\ chosen \in Seq(Entries) /\ Loads(chosen)
              /\ \A i \in DOMAIN chosen :
                    chosen[i].kind \in {SourceKind[chosen[i].registry]} \cup (Kinds \ EnabledKinds)
<1> DEFINE named == {i \in DOMAIN file : file[i].registry = choice}
           one == <<file[CHOOSE i \in named : TRUE]>>
<1>0. file \in Seq(Entries)
      /\ \A i \in DOMAIN file :
            file[i].kind \in {SourceKind[file[i].registry]} \cup (Kinds \ EnabledKinds)
  BY CommandAssumption
<1>1. CASE choice = All
  BY <1>0, <1>1 DEF Selected
<1>2. CASE choice # All /\ named = {}
  BY <1>2 DEF Selected, Loads
<1>3. CASE choice # All /\ named # {}
  <2>1. PICK k \in DOMAIN file : (CHOOSE i \in named : TRUE) = k
    BY <1>3
  <2>2. Selected(file, choice) = <<file[k]>>
    BY <1>3, <2>1 DEF Selected
  <2>3. file[k] \in Entries
    BY <1>0
  <2>4. <<file[k]>> \in Seq(Entries) /\ DOMAIN <<file[k]>> = {1} /\ <<file[k]>>[1] = file[k]
    BY <2>3
  <2> QED BY <1>0, <2>2, <2>4 DEF Loads
<1> QED BY <1>1, <1>2, <1>3

\* A command that starts has everything before it.
LEMMA StartKeeps ==
    ASSUME CommandInv, NEW file \in Files, NEW choice, Start(file, choice)
    PROVE  CommandInv'
<1>1. CASE End("failed")
  BY <1>1, EndKeeps DEF Start
<1>2. CASE ~End("failed")
  <2>1. /\ Loads(file) /\ selection' = Selected(file, choice)
        /\ phase' = "capture" /\ pos' = 1 /\ outcome' = "none"
        /\ seen' = [r \in Registries |-> Nothing]
        /\ UNCHANGED <<content, upstream>>
    BY <1>2 DEF Start
  <2>2. /\ selection' \in Seq(Entries)
        /\ Loads(selection')
        /\ \A i \in DOMAIN selection' :
              selection'[i].kind
                 \in {SourceKind[selection'[i].registry]} \cup (Kinds \ EnabledKinds)
    BY <2>1, SelectionLoads
  <2>3. TypeOK'
    BY <2>1, <2>2 DEF CommandInv, TypeOK, KB!TypeOK
  <2>4. SelectionInv'
    <3>1. \A i \in DOMAIN selection' : ~(i < pos')
      BY <2>1, <2>2
    <3>2. Loads(selection)'
      BY <2>2 DEF Loads
    <3> QED BY <2>1, <2>2, <3>1, <3>2 DEF SelectionInv
  <2>5. \A s \in SourceKeys : HasOrigin(s)'
    BY <2>1 DEF CommandInv, HasOrigin, IsCapturedAs
  <2> QED BY <2>1, <2>3, <2>4, <2>5 DEF CommandInv
<1> QED BY <1>1, <1>2

\* The capture of one entry leaves those before it as they are, because no id
\* occurs twice in a selection.
LEMMA CaptureKeeps ==
    ASSUME CommandInv, Capture
    PROVE  CommandInv'
<1>1. /\ phase = "capture" /\ pos \in DOMAIN selection /\ Entry.kind \in EnabledKinds
      /\ seen' = [seen EXCEPT ![Entry.registry] = upstream[Entry.registry]]
      /\ phase' = "write"
      /\ UNCHANGED <<content, upstream, selection, pos, outcome>>
  BY DEF Capture
<1>2. Entry.registry \in Registries
  BY <1>1, AcceptedEntry DEF Entry, EnabledEntries
<1>3. /\ seen'[Entry.registry] = upstream[Entry.registry]
      /\ \A r \in Registries \ {Entry.registry} : seen'[r] = seen[r]
      /\ seen' \in [Registries -> AllHoldings \cup {Nothing}]
  BY <1>1, <1>2 DEF CommandInv
<1>4. upstream[Entry.registry] \in Holdings[Entry.registry]
      /\ upstream[Entry.registry] # Nothing
  BY <1>2, CommandAssumption DEF CommandInv, TypeOK
<1>5. TypeOK'
  <2>1. \A r \in Registries : seen'[r] \in Holdings[r] \cup {Nothing}
    BY <1>2, <1>3, <1>4 DEF CommandInv, TypeOK
  <2>2. Entry' = Entry
    BY <1>1 DEF Entry
  <2> QED BY <1>1, <1>3, <1>4, <2>1, <2>2 DEF CommandInv, TypeOK, KB!TypeOK
<1>6. SelectionInv'
  <2>1. ASSUME NEW i \in DOMAIN selection, i < pos PROVE IsPublished(i)'
    <3>1. selection[i] \in Entries
      BY DEF CommandInv, TypeOK
    <3>2. selection[i].registry # Entry.registry
      BY <1>1, <2>1 DEF CommandInv, SelectionInv, Loads, Entry, TypeOK
    <3>3. seen'[selection[i].registry] = seen[selection[i].registry]
      BY <1>3, <3>1, <3>2 DEF Entries
    <3> QED BY <1>1, <2>1, <3>3 DEF CommandInv, SelectionInv, IsPublished, CaptureOf
  <2> QED BY <1>1, <2>1 DEF CommandInv, SelectionInv
<1>7. \A s \in SourceKeys : HasOrigin(s)'
  BY <1>1 DEF CommandInv, HasOrigin, IsCapturedAs
<1> QED BY <1>1, <1>3, <1>5, <1>6, <1>7 DEF CommandInv

\* The write of one entry publishes it and leaves those before it published.
LEMMA WriteKeeps ==
    ASSUME CommandInv, Write
    PROVE  CommandInv'
<1> DEFINE records == Captured(Entry, seen[Entry.registry])
<1>1. /\ phase = "write" /\ pos' = pos + 1 /\ phase' = "capture"
      /\ UNCHANGED <<upstream, selection, seen, outcome>>
  BY DEF Write
<1>2. /\ pos \in DOMAIN selection /\ selection \in Seq(Entries) /\ outcome = "none"
      /\ Entry \in EnabledEntries /\ Entry.registry \in Registries
      /\ seen[Entry.registry] \in Holdings[Entry.registry]
      /\ records \in Seq(Records)
  BY <1>1, WaitingCapture DEF CommandInv, SelectionInv, TypeOK
<1>3. /\ records = <<>> => content' = content
      /\ \A s \in SourceKeys : s[1] # Entry.registry => content'[s] = content[s]
      /\ records # <<>> => \A s \in SourceKeys : s[1] = Entry.registry =>
            content'[s] = IF KB!LastUnder(records, s[2]) = {} THEN NoRow
                          ELSE <<Entry.corpus,
                                 records[CHOOSE i \in KB!LastUnder(records, s[2]) : TRUE].body>>
      /\ KB!TypeOK'
  BY WriteEffect
<1> HIDE DEF records
<1>4. TypeOK'
  BY <1>1, <1>2, <1>3 DEF CommandInv, TypeOK
<1>5. SelectionInv'
  <2>1. ASSUME NEW i \in DOMAIN selection, i < pos PROVE IsPublished(i)'
    <3>1. selection[i] \in Entries
      BY <1>2
    <3>2. selection[i].registry # Entry.registry
      BY <1>2, <2>1 DEF CommandInv, SelectionInv, Loads, Entry
    <3>3. \A n \in Natives : <<selection[i].registry, n>> \in SourceKeys
      BY <3>1 DEF Entries, SourceKeys
    <3>4. \A n \in Natives :
             content'[<<selection[i].registry, n>>] = content[<<selection[i].registry, n>>]
      BY <1>3, <3>2, <3>3
    <3>5. IsPublished(i) /\ CaptureOf(i)' = CaptureOf(i)
      BY <1>1, <2>1 DEF CommandInv, SelectionInv, CaptureOf
    <3> QED BY <1>1, <3>4, <3>5 DEF IsPublished, Shows
  <2>2. ASSUME NEW i \in DOMAIN selection, i = pos PROVE IsPublished(i)'
    <3>1. CaptureOf(i)' = records /\ selection'[i] = Entry
      BY <1>1, <2>2 DEF CaptureOf, records, Entry
    <3>2. \A n \in Natives : <<Entry.registry, n>> \in SourceKeys
      BY <1>2 DEF SourceKeys
    <3>3. Shows(content', Entry, records)
      BY <1>3, <3>2 DEF Shows
    <3> QED BY <1>1, <3>1, <3>3 DEF IsPublished
  <2>3. \A i \in DOMAIN selection : i < pos + 1 => i < pos \/ i = pos
    BY <1>2
  <2>4. \A i \in DOMAIN selection' : i < pos' \/ outcome' = "done" => IsPublished(i)'
    BY <1>1, <1>2, <2>1, <2>2, <2>3
  <2> QED BY <1>1, <1>2, <2>4 DEF CommandInv, SelectionInv, Loads
<1>6. ASSUME NEW s \in SourceKeys PROVE HasOrigin(s)'
  <2>1. CASE content'[s] = content[s]
    BY <2>1 DEF CommandInv, HasOrigin, IsCapturedAs
  <2>2. CASE content'[s] # content[s] /\ content'[s] # NoRow
    <3>1. records # <<>> /\ s[1] = Entry.registry /\ KB!LastUnder(records, s[2]) # {}
      BY <1>3, <2>2
    <3>2. PICK i : i = CHOOSE j \in KB!LastUnder(records, s[2]) : TRUE
      OBVIOUS
    <3>3. i \in DOMAIN records /\ records[i].native = s[2]
      BY <1>2, <3>1, <3>2, PublishedRecord
    <3>4. content'[s] = <<Entry.corpus, records[i].body>>
      BY <1>3, <3>1, <3>2
    <3> QED BY <1>2, <3>1, <3>3, <3>4 DEF HasOrigin, IsCapturedAs, records
  <2>3. CASE content'[s] = NoRow
    BY <2>3 DEF HasOrigin
  <2> QED BY <2>1, <2>2, <2>3
<1> QED BY <1>1, <1>4, <1>5, <1>6 DEF CommandInv

\* A command that reports success has all of its selection behind it.
LEMMA FinishKeeps ==
    ASSUME CommandInv, Finish
    PROVE  CommandInv'
<1>1. /\ phase = "capture" /\ pos \notin DOMAIN selection
      /\ phase' = "idle" /\ selection' = selection /\ pos' = 1 /\ seen' = seen
      /\ outcome' = "done" /\ UNCHANGED <<content, upstream>>
  BY DEF Finish, End
<1>2. selection \in Seq(Entries) /\ pos \in 1..Len(selection) + 1
  BY DEF CommandInv, TypeOK
<1>3. \A i \in DOMAIN selection : i < pos
  BY <1>1, <1>2
<1>4. TypeOK'
  BY <1>1, <1>2 DEF CommandInv, TypeOK, KB!TypeOK
<1>5. SelectionInv'
  BY <1>1, <1>3 DEF CommandInv, SelectionInv, IsPublished, CaptureOf
<1>6. \A s \in SourceKeys : HasOrigin(s)'
  BY <1>1 DEF CommandInv, HasOrigin, IsCapturedAs
<1> QED BY <1>1, <1>4, <1>5, <1>6 DEF CommandInv

\* Nothing moves in a stuttering step.
LEMMA StutterKeeps ==
    ASSUME CommandInv, UNCHANGED vars
    PROVE  CommandInv'
<1>1. TypeOK'
  BY DEF vars, CommandInv, TypeOK, KB!TypeOK, Entry
<1>2. SelectionInv'
  BY DEF vars, CommandInv, SelectionInv, IsPublished, CaptureOf
<1>3. \A s \in SourceKeys : HasOrigin(s)'
  BY DEF vars, CommandInv, HasOrigin, IsCapturedAs
<1> QED BY <1>1, <1>2, <1>3 DEF vars, CommandInv

\* Nothing is published and nothing selected at first.
LEMMA CommandInitially == Init => CommandInv
<1> SUFFICES ASSUME Init PROVE CommandInv
  OBVIOUS
<1>1. content = [s \in SourceKeys |-> NoRow]
  BY SameKeys DEF Init, KB!Init
<1>2. upstream \in [Registries -> AllHoldings] /\ \A r \in Registries : upstream[r] \in Holdings[r]
  BY DEF Init, AllHoldings
<1>3. KB!TypeOK
  BY <1>1, SameKeys DEF KB!TypeOK
<1>4. TypeOK
  BY <1>2, <1>3 DEF Init, TypeOK
<1>5. SelectionInv
  BY DEF Init, SelectionInv, Loads
<1>6. \A s \in SourceKeys : HasOrigin(s)
  BY <1>1 DEF HasOrigin
<1> QED BY <1>2, <1>4, <1>5, <1>6 DEF Init, CommandInv

\* What a command has behind it is published as captured, and every text comes
\* from the adapter of its own entry, whatever fails or is edited meanwhile.
THEOREM CommandInvariant == Spec => []CommandInv
<1>1. CommandInv /\ [Next]_vars => CommandInv'
  BY EndKeeps, EditKeeps, StartKeeps, CaptureKeeps, WriteKeeps, FinishKeeps, StutterKeeps
  DEF Next, CaptureFails, WriteFails
<1> QED
  BY CommandInitially, <1>1, PTL DEF Spec

-----------------------------------------------------------------------------
(* What the command is for                                                 *)

\* The type invariant of the command.
THEOREM TypeCorrect == Spec => []TypeOK
<1>1. CommandInv => TypeOK
  BY DEF CommandInv
<1> QED BY CommandInvariant, <1>1, PTL

\* Success means that each selected source is published as it was captured: a
\* failed adapter ends the command, and an id that occurs twice keeps it from
\* starting.
THEOREM DonePublishes == Spec => []DoneMeansPublished
<1>1. CommandInv => DoneMeansPublished
  <2> SUFFICES ASSUME CommandInv, outcome = "done" PROVE DoneMeansPublished
    BY DEF DoneMeansPublished
  <2>1. \A i \in DOMAIN selection : IsPublished(i)
    BY DEF CommandInv, SelectionInv
  <2> QED BY <2>1 DEF DoneMeansPublished, IsPublished, Shows, CaptureOf
<1> QED BY CommandInvariant, <1>1, PTL

\* What an adapter makes of a source of files or messages has no line of a call.
LEMMA CaptureIsSeparate ==
    ASSUME NEW entry \in EnabledEntries, entry.kind # "ome_transcripts",
           NEW holding \in Holdings[entry.registry],
           NEW i \in DOMAIN Captured(entry, holding)
    PROVE  ToSet(Captured(entry, holding)[i].body) \cap TranscriptLines = {}
<1>1. /\ entry.registry \in Registries /\ entry.kind = SourceKind[entry.registry]
      /\ entry.chunkChars \in Nat
  BY CommandAssumption DEF EnabledEntries
<1> DEFINE record == Captured(entry, holding)[i]
<1>2. CASE entry.kind = "static_file"
  <2> DEFINE chunks == Chunks(holding, entry.chunkChars)
  <2>1. holding \in Seq(Lines)
    BY <1>1, <1>2, HoldingsAssumption
  <2>2. chunks \in Seq(Seq(Lines)) /\ FlattenSeq(chunks) = holding
    BY <1>1, <2>1, FileIsCut
  <2>3. Captured(entry, holding) = StaticFileRecords(holding, entry.chunkChars, entry.path)
    BY <1>2 DEF Captured
  <2>4. i \in DOMAIN chunks /\ record.body = chunks[i]
    BY <2>3 DEF StaticFileRecords
  <2> HIDE DEF chunks, record
  <2>5. ToSet(chunks[i]) \in SUBSET ToSet(holding)
    BY <2>2, <2>4, PartIsInFlat
  <2> QED BY <1>1, <1>2, <2>4, <2>5, SeparationAssumption DEF record
<1>3. CASE entry.kind = "front_csv"
  <2>1. holding \in Seq(MailRows)
    BY <1>1, <1>3, HoldingsAssumption
  <2>2. Captured(entry, holding) = FrontRecords(holding)
    BY <1>3 DEF Captured
  <2>3. \A m \in ToSet(record.body) : \E j \in DOMAIN holding : m = holding[j].message
    <3> HIDE DEF record
    <3>1. ToSet(FrontRecords(holding)[i].body) =
             {holding[j].message :
                 j \in {k \in {l \in DOMAIN holding : holding[l].message \in Relevant} :
                          holding[k].conversation = FrontRecords(holding)[i].native}}
      BY <2>1, <2>2, FrontIsWhole
    <3> QED BY <2>2, <3>1 DEF record
  <2> HIDE DEF record
  <2>4. {holding[j].message : j \in DOMAIN holding} \cap TranscriptLines = {}
    BY <1>1, <1>3, SeparationAssumption
  <2> QED BY <2>3, <2>4 DEF record
<1> QED BY <1>2, <1>3 DEF EnabledEntries, EnabledKinds

\* A carrier-safe text comes from a file or from messages, never from a call,
\* whatever registry files were ingested before: the kind of a source is its
\* own, and load_registry refuses a public entry for calls.
THEOREM PublicSources ==
    Spec => [](\A s \in SourceKeys :
                  content[s] # NoRow /\ content[s][1] = Public =>
                     SourceKind[s[1]] # "ome_transcripts")
<1>1. CommandInv => \A s \in SourceKeys :
         content[s] # NoRow /\ content[s][1] = Public => SourceKind[s[1]] # "ome_transcripts"
  <2> SUFFICES ASSUME CommandInv, NEW s \in SourceKeys, content[s] # NoRow, content[s][1] = Public
               PROVE  SourceKind[s[1]] # "ome_transcripts"
    OBVIOUS
  <2>1. PICK entry \in EnabledEntries :
           /\ entry.registry = s[1]
           /\ \E body : content[s] = <<entry.corpus, body>>
    BY DEF CommandInv, HasOrigin, IsCapturedAs
  <2>2. entry.corpus = Public
    BY <2>1
  <2> QED BY <2>1, <2>2 DEF EnabledEntries, Public, Internal
<1> QED BY CommandInvariant, <1>1, PTL

\* No line of a transcript is ever carrier-safe.
THEOREM TranscriptsInternal == Spec => []TranscriptsStayInternal
<1>1. CommandInv => TranscriptsStayInternal
  <2> SUFFICES ASSUME CommandInv, NEW s \in SourceKeys, content[s] # NoRow, content[s][1] = Public
               PROVE  ToSet(content[s][2]) \cap TranscriptLines = {}
    BY DEF TranscriptsStayInternal
  <2>0. PICK entry \in EnabledEntries : \E holding \in Holdings[entry.registry] :
           \E i \in DOMAIN Captured(entry, holding) :
              content[s] = <<entry.corpus, Captured(entry, holding)[i].body>>
    BY DEF CommandInv, HasOrigin, IsCapturedAs
  <2>1. PICK holding \in Holdings[entry.registry] : \E i \in DOMAIN Captured(entry, holding) :
           content[s] = <<entry.corpus, Captured(entry, holding)[i].body>>
    BY <2>0
  <2>2. PICK i \in DOMAIN Captured(entry, holding) :
           content[s] = <<entry.corpus, Captured(entry, holding)[i].body>>
    BY <2>1
  <2>3. entry.corpus = Public /\ content[s][2] = Captured(entry, holding)[i].body
    BY <2>2
  <2>4. entry.kind # "ome_transcripts"
    BY <2>3 DEF EnabledEntries, Public, Internal
  <2> QED BY <2>3, <2>4, CaptureIsSeparate
<1> QED BY CommandInvariant, <1>1, PTL

\* Every file is cut into chunks without loss, within the limit and no shorter
\* than they must be, for files of any length and any limit.
THEOREM FilesAreCut == Spec => []ChunksAreFaithful
<1>1. CommandInv => ChunksAreFaithful
  <2> SUFFICES ASSUME CommandInv, NEW r \in Registries, NEW limit \in ChunkLimits,
                      SourceKind[r] = "static_file"
               PROVE  LET file   == upstream[r]
                          chunks == Chunks(file, limit) IN
                      /\ FlattenSeq(chunks) = file
                      /\ \A i \in DOMAIN chunks : Size(chunks[i]) <= limit \/ Len(chunks[i]) = 1
                      /\ \A i \in 2..Len(chunks) :
                            Size(chunks[i - 1]) + LineSize[chunks[i][1]] + 1 > limit
    BY DEF ChunksAreFaithful
  <2>1. upstream[r] \in Seq(Lines) /\ limit \in Nat
    BY HoldingsAssumption, CommandAssumption DEF CommandInv, TypeOK
  <2> QED BY <2>1, FileIsCut
<1> QED BY CommandInvariant, <1>1, PTL

\* Every conversation of a Front export is one record, whole and without
\* repetition, however its messages are scattered over the export.
THEOREM WholeConversations == Spec => []ConversationsAreWhole
<1>1. CommandInv => ConversationsAreWhole
  <2> SUFFICES ASSUME CommandInv, NEW r \in Registries, SourceKind[r] = "front_csv"
               PROVE  upstream[r] \in Seq(MailRows)
    BY FrontIsWhole DEF ConversationsAreWhole
  <2> QED BY HoldingsAssumption DEF CommandInv, TypeOK
<1> QED BY CommandInvariant, <1>1, PTL

\* A native id under which the capture publishes nothing was not captured.
LEMMA NotCaptured ==
    ASSUME NEW records \in Seq(Records), NEW n, KB!LastUnder(records, n) = {}
    PROVE  \A i \in DOMAIN records : records[i].native # n
<1> SUFFICES ASSUME NEW i \in DOMAIN records, records[i].native = n PROVE FALSE
  OBVIOUS
<1> DEFINE T == {j \in DOMAIN records : records[j].native = n}
<1>1. T \in SUBSET Nat /\ T # {} /\ Len(records) \in Nat /\ \A j \in T : j <= Len(records)
  OBVIOUS
<1>2. PICK l \in T : \A j \in T : j <= l
  <2> HIDE DEF T
  <2> QED BY <1>1, Greatest
<1> QED BY <1>2 DEF KB!LastUnder

\* What was published of a source under a native id and is not in the capture of
\* its entry has a cause to be retired in what the capture saw.
LEMMA AbsenceHasCause ==
    ASSUME CommandInv, NEW entry \in EnabledEntries, NEW holding \in Holdings[entry.registry],
           NEW s \in SourceKeys, s[1] = entry.registry, content[s] # NoRow,
           \A i \in DOMAIN Captured(entry, holding) : Captured(entry, holding)[i].native # s[2]
    PROVE  HasCause(entry, holding, s[2])
<1>1. /\ entry.registry \in Registries /\ entry.kind = SourceKind[entry.registry]
      /\ entry.chunkChars \in Nat
  BY CommandAssumption DEF EnabledEntries
<1>2. CASE entry.kind = "static_file"
  <2> DEFINE chunks == Chunks(holding, entry.chunkChars)
  <2>1. holding \in Seq(Lines)
    BY <1>1, <1>2, HoldingsAssumption
  <2>2. chunks \in Seq(Seq(Lines))
    BY <1>1, <2>1, FileIsCut
  <2>3. Captured(entry, holding) =
           [i \in DOMAIN chunks |-> [native |-> <<entry.path, i - 1>>, body |-> chunks[i]]]
    BY <1>2 DEF Captured, StaticFileRecords
  <2>4. \E path \in Paths, k \in Nat : s[2] = <<path, k>>
    <3>1. PICK e \in EnabledEntries : /\ e.registry = s[1]
             /\ \E h \in Holdings[e.registry] : \E i \in DOMAIN Captured(e, h) :
                   Captured(e, h)[i].native = s[2]
      BY DEF CommandInv, HasOrigin, IsCapturedAs
    <3>2. PICK h \in Holdings[e.registry] : \E i \in DOMAIN Captured(e, h) :
                   Captured(e, h)[i].native = s[2]
      BY <3>1
    <3>3. /\ e.kind = "static_file" /\ e.path \in Paths
          /\ h \in Seq(Lines) /\ e.chunkChars \in Nat
      BY <1>1, <1>2, <3>1, HoldingsAssumption, CommandAssumption DEF EnabledEntries
    <3>4. Chunks(h, e.chunkChars) \in Seq(Seq(Lines))
      BY <3>3, FileIsCut
    <3>5. Captured(e, h) = [i \in DOMAIN Chunks(h, e.chunkChars) |->
                              [native |-> <<e.path, i - 1>>, body |-> Chunks(h, e.chunkChars)[i]]]
      BY <3>3 DEF Captured, StaticFileRecords
    <3>6. PICK i \in DOMAIN Chunks(h, e.chunkChars) : s[2] = <<e.path, i - 1>>
      BY <3>2, <3>5
    <3>7. i - 1 \in Nat
      BY <3>4, <3>6
    <3> QED BY <3>3, <3>6, <3>7
  <2>5. PICK path \in Paths, k \in Nat : s[2] = <<path, k>>
    BY <2>4
  <2>6. path = entry.path => \A i \in 1..Len(chunks) : i - 1 # k
    <3>1. DOMAIN chunks = 1..Len(chunks)
      BY <2>2
    <3> HIDE DEF chunks
    <3> QED BY <2>3, <2>5, <3>1
  <2>7. Len(chunks) \in Nat
    BY <2>2
  <2> HIDE DEF chunks
  <2>8. path # entry.path \/ k >= Len(chunks)
    <3> SUFFICES ASSUME path = entry.path, k < Len(chunks) PROVE FALSE
      BY <2>5, <2>7
    <3>1. k + 1 \in 1..Len(chunks) /\ (k + 1) - 1 = k
      BY <2>5, <2>7
    <3> QED BY <2>6, <3>1
  <2>9. s[2][1] = path /\ s[2][2] = k
    BY <2>5
  <2> QED BY <1>2, <2>8, <2>9 DEF HasCause, chunks
<1>3. CASE entry.kind = "front_csv"
  <2>1. holding \in Seq(MailRows)
    BY <1>1, <1>3, HoldingsAssumption
  <2> DEFINE records == FrontRecords(holding)
  <2>2. Captured(entry, holding) = records
    BY <1>3 DEF Captured
  <2>3. {records[i].native : i \in DOMAIN records} =
          {holding[i].conversation : i \in {j \in DOMAIN holding : holding[j].message \in Relevant}}
    BY <2>1, FrontIsWhole
  <2> HIDE DEF records
  <2>4. \A i \in DOMAIN holding : holding[i].conversation = s[2] => holding[i].message \notin Relevant
    BY <2>2, <2>3
  <2> QED BY <1>3, <2>4 DEF HasCause
<1>4. CASE entry.kind = "ome_transcripts"
  <2>1. holding \in Seq(CallRows)
    BY <1>1, <1>4, HoldingsAssumption
  <2>2. Captured(entry, holding) = OmeRecords(holding)
    BY <1>4 DEF Captured
  <2>3. ASSUME NEW i \in DOMAIN holding, holding[i].call = s[2],
               holding[i].complete, IsRelevant(holding[i].transcript)
        PROVE  Place(holding, i) > OmeLimit
    <3>1. ~(Place(holding, i) <= OmeLimit)
      BY <2>1, <2>2, <2>3, CallsAreKept
    <3>2. Place(holding, i) \in Nat
      <4>1. i \in Nat
        BY <2>1
      <4>2. IsFiniteSet(1..i)
        BY <4>1, FS_Interval
      <4> QED BY <4>2, FS_Subset, FS_CardinalityType DEF Place
    <3> QED BY <3>1, <3>2, AdaptersAssumption
  <2> QED BY <1>4, <2>3 DEF HasCause
<1> QED BY <1>2, <1>3, <1>4 DEF EnabledEntries, EnabledKinds

\* A write retires a source only for a cause in what was captured of it.
LEMMA WriteRetires ==
    ASSUME CommandInv, Write, NEW s \in SourceKeys, content[s] # NoRow, content'[s] = NoRow
    PROVE  /\ phase = "write" /\ Entry.registry = s[1]
           /\ Captured(Entry, seen[s[1]]) # <<>>
           /\ HasCause(Entry, seen[s[1]], s[2])
<1> DEFINE records == Captured(Entry, seen[Entry.registry])
<1>1. /\ records = <<>> => content' = content
      /\ \A t \in SourceKeys : t[1] # Entry.registry => content'[t] = content[t]
      /\ records # <<>> => \A t \in SourceKeys : t[1] = Entry.registry =>
            content'[t] = IF KB!LastUnder(records, t[2]) = {} THEN NoRow
                          ELSE <<Entry.corpus,
                                 records[CHOOSE i \in KB!LastUnder(records, t[2]) : TRUE].body>>
  BY WriteEffect
<1>2. /\ phase = "write" /\ Entry \in EnabledEntries /\ Entry.corpus \in Corpora
      /\ seen[Entry.registry] \in Holdings[Entry.registry] /\ records \in Seq(Records)
  BY WaitingCapture DEF Write
<1> HIDE DEF records
<1>3. s[1] = Entry.registry /\ records # <<>>
  BY <1>1
<1>4. KB!LastUnder(records, s[2]) = {}
  <2> SUFFICES ASSUME KB!LastUnder(records, s[2]) # {} PROVE FALSE
    OBVIOUS
  <2>1. PICK i : i = CHOOSE j \in KB!LastUnder(records, s[2]) : TRUE
    OBVIOUS
  <2>2. content'[s] = <<Entry.corpus, records[i].body>>
    BY <1>1, <1>3, <2>1
  <2>3. records[i] \in Records
    BY <1>2, <2>1, PublishedRecord
  <2>4. <<Entry.corpus, records[i].body>> \in DocumentKeys
    BY <1>2, <2>3 DEF Records, DocumentKeys
  <2> QED BY <2>2, <2>4, NoRowAssumption
<1>5. \A i \in DOMAIN records : records[i].native # s[2]
  BY <1>2, <1>4, NotCaptured
<1>6. HasCause(Entry, seen[Entry.registry], s[2])
  BY <1>2, <1>3, <1>5, AbsenceHasCause DEF records
<1> QED BY <1>2, <1>3, <1>6 DEF records

\* A source is retired only by the write of its own entry, for a cause in what
\* was captured for it.
THEOREM RetirementHasCause == Spec => RetiredForCause
<1> DEFINE Step == \A s \in SourceKeys :
              content[s] # NoRow /\ content'[s] = NoRow =>
                 /\ phase = "write" /\ Entry.registry = s[1]
                 /\ Captured(Entry, seen[s[1]]) # <<>>
                 /\ HasCause(Entry, seen[s[1]], s[2])
<1>1. CommandInv /\ [Next]_vars => [Step]_vars
  <2> SUFFICES ASSUME CommandInv, Next PROVE content' = content \/ Step
    BY DEF vars
  <2>1. CASE Write
    BY <2>1, WriteRetires
  <2>2. CASE ~Write
    BY <2>2 DEF Next, Edit, Start, End, Capture, CaptureFails, WriteFails, Finish
  <2> QED BY <2>1, <2>2
<1> QED BY CommandInvariant, <1>1, PTL DEF Spec, RetiredForCause

-----------------------------------------------------------------------------
(* Sources with no more transcripts than the query returns                 *)

FewTranscripts ==
    \A r \in Registries : SourceKind[r] = "ome_transcripts" =>
        \A holding \in Holdings[r] : Len(holding) <= OmeLimit

\* What is captured of calls is relevant.
LEMMA CallsAreRelevant ==
    ASSUME NEW rows \in Seq(CallRows), NEW k \in DOMAIN OmeRecords(rows)
    PROVE  IsRelevant(OmeRecords(rows)[k].body)
<1> DEFINE present == {j \in DOMAIN rows : rows[j].transcript # <<>>}
           window  == {j \in present : Rank(present, j) <= OmeLimit}
           kept    == {j \in window : rows[j].complete /\ IsRelevant(rows[j].transcript)}
           record(j) == [native |-> rows[j].call, body |-> rows[j].transcript]
           all     == [j \in DOMAIN rows |-> record(j)]
<1>1. OmeRecords(rows) = At(all, kept)
  BY DEF OmeRecords
<1>2. all \in Seq({record(j) : j \in DOMAIN rows}) /\ DOMAIN all = DOMAIN rows
  OBVIOUS
<1>3. kept \in SUBSET DOMAIN all
  BY <1>2
<1>4. \A j \in kept : IsRelevant(all[j].body)
  OBVIOUS
<1> HIDE DEF kept, all, record
<1>5. Nth(kept, k) \in kept /\ At(all, kept)[k] = all[Nth(kept, k)]
  BY <1>1, <1>2, <1>3, AtPlaces
<1> QED BY <1>1, <1>4, <1>5

\* A published transcript is relevant.
LEMMA PublishedIsRelevant ==
    ASSUME CommandInv, NEW s \in SourceKeys, content[s] # NoRow,
           SourceKind[s[1]] = "ome_transcripts"
    PROVE  IsRelevant(content[s][2])
<1>1. PICK entry \in EnabledEntries : entry.registry = s[1] /\
         \E holding \in Holdings[entry.registry] : \E i \in DOMAIN Captured(entry, holding) :
            content[s] = <<entry.corpus, Captured(entry, holding)[i].body>>
  BY DEF CommandInv, HasOrigin, IsCapturedAs
<1>2. PICK holding \in Holdings[entry.registry] : \E i \in DOMAIN Captured(entry, holding) :
         content[s] = <<entry.corpus, Captured(entry, holding)[i].body>>
  BY <1>1
<1>3. PICK i \in DOMAIN Captured(entry, holding) :
         content[s] = <<entry.corpus, Captured(entry, holding)[i].body>>
  BY <1>2
<1>4. entry.kind = "ome_transcripts" /\ entry.registry \in Registries
  BY <1>1 DEF EnabledEntries
<1>5. holding \in Seq(CallRows)
  BY <1>1, <1>4, HoldingsAssumption
<1>6. Captured(entry, holding) = OmeRecords(holding)
  BY <1>4 DEF Captured
<1> QED BY <1>3, <1>5, <1>6, CallsAreRelevant

\* While OME holds no more transcripts than its query returns, retired does mean
\* absent: a transcript that the capture still saw, complete, is not retired.  So
\* it is the limit of the query alone that takes old transcripts away.
THEOREM RetiredIsAbsent == ASSUME FewTranscripts PROVE Spec => RetiredMeansAbsent
<1> DEFINE Step == \A s \in SourceKeys :
              content[s] # NoRow /\ content'[s] = NoRow /\ SourceKind[s[1]] = "ome_transcripts" =>
                 \A i \in DOMAIN seen[s[1]] :
                     seen[s[1]][i].complete /\ seen[s[1]][i].call = s[2] =>
                         seen[s[1]][i].transcript # content[s][2]
<1>1. CommandInv /\ [Next]_vars => [Step]_vars
  <2> SUFFICES ASSUME CommandInv, Next, content' # content,
                      NEW s \in SourceKeys, content[s] # NoRow, content'[s] = NoRow,
                      SourceKind[s[1]] = "ome_transcripts",
                      NEW i \in DOMAIN seen[s[1]], seen[s[1]][i].complete,
                      seen[s[1]][i].call = s[2], seen[s[1]][i].transcript = content[s][2]
               PROVE  FALSE
    BY DEF vars
  <2> DEFINE rows == seen[s[1]]
  <2>1. Write
    BY DEF Next, Edit, Start, End, Capture, CaptureFails, WriteFails, Finish
  <2>2. phase = "write" /\ Entry.registry = s[1] /\ HasCause(Entry, rows, s[2])
    BY <2>1, WriteRetires
  <2>3. Entry \in EnabledEntries /\ rows \in Holdings[s[1]] /\ s[1] \in Registries
    BY <2>2, WaitingCapture
  <2>4. Entry.kind = "ome_transcripts"
    BY <2>2, <2>3 DEF EnabledEntries
  <2>5. rows \in Seq(CallRows) /\ Len(rows) <= OmeLimit
    BY <2>3, HoldingsAssumption DEF FewTranscripts
  <2> HIDE DEF rows
  <2>6. IsRelevant(rows[i].transcript)
    BY PublishedIsRelevant DEF rows
  <2>7. Place(rows, i) > OmeLimit
    BY <2>2, <2>4, <2>6 DEF HasCause, rows
  <2>8. Place(rows, i) <= Len(rows) /\ Place(rows, i) \in Nat /\ Len(rows) \in Nat
    <3> DEFINE upTo == {j \in 1..i : rows[j].transcript # <<>>}
    <3>1. i \in 1..Len(rows) /\ Len(rows) \in Nat
      BY <2>5 DEF rows
    <3>2. IsFiniteSet(1..i) /\ Cardinality(1..i) = i
      BY <3>1, FS_Interval
    <3>3. upTo \in SUBSET (1..i)
      OBVIOUS
    <3> HIDE DEF upTo
    <3>4. IsFiniteSet(upTo) /\ Cardinality(upTo) <= Cardinality(1..i) /\ Cardinality(upTo) \in Nat
      BY <3>2, <3>3, FS_Subset, FS_CardinalityType
    <3> QED BY <3>1, <3>2, <3>4 DEF Place, upTo
  <2> QED BY <2>5, <2>7, <2>8, AdaptersAssumption
<1> QED BY CommandInvariant, <1>1, PTL DEF Spec, RetiredMeansAbsent

=============================================================================
