---------------------------- MODULE NetbootProofs ----------------------------
(* Proofs about Netboot, for every size of the buffer, every user's line,   *)
(* every command-line file and every way its transfer breaks off.           *)
EXTENDS Netboot, TLAPS, SequenceTheorems, WellFoundedInduction

-----------------------------------------------------------------------------
(* The inductive invariant                                                 *)

Cells == 0 .. Cap - 1
Ahead == {"link", "dhcp", "bootfile", "args"} \* of the strip loop

LineTypeOK == /\ pc \in Ahead \cup {"strip", "terminate", "user", "release",
                                    "suffix", "boot", "halt", "undefined"}
              /\ cmd_line \in [Cells -> Chars]
              /\ file \in Seq(Chars) /\ user \in UserLines
              /\ got \in 0 .. Room /\ got <= Len(file)
              /\ size \in 0 .. Room

\* The last cell is never written but with a NUL: strlen() always finds one.
LastIsNul == cmd_line[Cap - 1] = "0"

\* After the release the server holds no address.
Released == pc \in {"suffix", "boot"} => ~lease

\* The array begins with the string l and its NUL.
Holds(a, l) == /\ Len(l) < Cap /\ a[Len(l)] = "0"
               /\ \A x \in 0 .. Len(l) - 1 : a[x] = l[x + 1]
               /\ \A k \in 1 .. Len(l) : l[k] # "0"

\* As long as no byte of the file has arrived the buffer is the user's.
UserKept ==
    \/ pc \in Ahead \cup {"user"}
    \/ pc \in {"release", "suffix"} /\ used = "user"
    => (got = 0 => Holds(cmd_line, user))

\* The blocks received stand at the head of the buffer.
FileRead ==
    pc \in Ahead \cup {"strip", "terminate"} =>
        \A x \in 0 .. got - 1 : cmd_line[x] = file[x + 1]

\* Nothing behind the size is printable, and at its end the loop has met
\* something that is.
Stripped ==
    /\ pc \in {"strip", "terminate"} =>
          /\ got = Len(file) /\ size <= Len(file)
          /\ \A k \in size + 1 .. Len(file) : Blank(file[k])
    /\ pc = "terminate" => size = 0 \/ ~Blank(file[size])

\* The buffer is the file, cleaned.
FileCleaned ==
    pc \in {"release", "suffix"} /\ used = "file" => Holds(cmd_line, Clean(file))

LineInv == /\ LineTypeOK /\ LastIsNul /\ Released /\ UserKept /\ FileRead
           /\ Stripped /\ FileCleaned /\ BootedLineIsWhole

-----------------------------------------------------------------------------
(* C strings                                                               *)

\* Every set of numbers has a least one.
LEMMA LeastNatural ==
    ASSUME NEW T, T \subseteq Nat, T # {}
    PROVE  \E x \in T : \A y \in T : x <= y
<1> DEFINE R == OpToRel(<, Nat)
<1>1. IsWellFoundedOn(R, Nat)
    BY NatLessThanWellFounded
<1>2. \A y, x \in Nat : y < x => <<y, x>> \in R
    BY DEF OpToRel
<1> HIDE DEF R
<1>3. PICK x \in T : \A y \in T : ~(<<y, x>> \in R)
    BY <1>1, WFMin
<1>4. ASSUME NEW y \in T PROVE x <= y
    <2>1. x \in Nat /\ y \in Nat /\ ~(<<y, x>> \in R)
        BY <1>3
    <2>2. ~(y < x)
        BY <1>2, <2>1
    <2> QED BY <2>1, <2>2
<1> QED BY <1>4

\* strlen() of an array with a NUL in it ends at the first.
LEMMA StrLenEnds ==
    ASSUME NEW a, a[Cap - 1] = "0"
    PROVE  /\ StrLen(a) \in Cells /\ a[StrLen(a)] = "0"
           /\ \A x \in 0 .. StrLen(a) - 1 : a[x] # "0"
<1> DEFINE nuls == {x \in Cells : a[x] = "0"}
<1>1. Cap - 1 \in nuls /\ nuls \subseteq Nat
    BY BufferAssumption DEF Cells
<1>2. PICK n \in nuls : \A x \in nuls : n <= x
    BY <1>1, LeastNatural
<1>3. n \in Cells /\ a[n] = "0"
    OBVIOUS
<1>4. ASSUME NEW x \in 0 .. n - 1 PROVE a[x] # "0"
    <2>1. x \in Cells /\ ~(n <= x)
        BY <1>3, BufferAssumption DEF Cells
    <2> QED BY <1>2, <2>1
<1>5. \E m \in Cells : a[m] = "0" /\ \A x \in 0 .. m - 1 : a[x] # "0"
    BY <1>3, <1>4
<1> QED BY <1>5 DEF StrLen, Cells

\* strlen() of an array finds its string.
LEMMA HeldIsLine ==
    ASSUME NEW a, NEW l \in Seq(Chars), Holds(a, l)
    PROVE  StrLen(a) = Len(l) /\ Line(a) = l
<1>1. /\ Len(l) \in Cells /\ a[Len(l)] = "0"
      /\ \A x \in 0 .. Len(l) - 1 : a[x] # "0"
    BY BufferAssumption DEF Holds, Cells
<1>2. ASSUME NEW n \in Cells, a[n] = "0", \A x \in 0 .. n - 1 : a[x] # "0"
      PROVE  n = Len(l)
    BY <1>1, <1>2, BufferAssumption DEF Cells
<1>3. StrLen(a) = Len(l)
    BY <1>1, <1>2 DEF StrLen, Cells
<1>4. Line(a) = [x \in 1 .. Len(l) |-> a[x - 1]]
    BY <1>3 DEF Line
<1>5. \A x \in 1 .. Len(l) : a[x - 1] = l[x]
    BY DEF Holds
<1>6. l = [x \in 1 .. Len(l) |-> l[x]]
    OBVIOUS
<1> QED BY <1>3, <1>4, <1>5, <1>6

\* The suffix and its NUL.
LEMMA SuffixIsSeq ==
    ASSUME NEW n \in 1 .. Suffix
    PROVE  LET t == [k \in 1 .. n |-> "t"]
           IN  /\ t \in Seq(Chars) /\ Len(t) = n
               /\ Append(t, "0") \in Seq(Chars)
               /\ Len(Append(t, "0")) = n + 1
               /\ \A k \in 1 .. n : t[k] = "t" /\ Append(t, "0")[k] = "t"
               /\ Append(t, "0")[n + 1] = "0"
<1> DEFINE t == [k \in 1 .. n |-> "t"]
<1>1. n \in Nat /\ t \in [1 .. n -> Chars] /\ "0" \in Chars
    BY BufferAssumption DEF Chars
<1>2. t \in Seq(Chars) /\ Len(t) = n /\ \A k \in 1 .. n : t[k] = "t"
    BY <1>1, SeqDef
<1> HIDE DEF t
<1>3. /\ Append(t, "0") \in Seq(Chars) /\ Len(Append(t, "0")) = n + 1
      /\ \A k \in 1 .. n : Append(t, "0")[k] = "t"
      /\ Append(t, "0")[n + 1] = "0"
    BY <1>1, <1>2, AppendProperties
<1> QED BY <1>2, <1>3 DEF t

\* sprintf() behind a string that leaves room makes a longer string.
LEMMA SuffixIsHeld ==
    ASSUME NEW a, NEW l \in Seq(Chars), Holds(a, l),
           NEW n \in 1 .. Suffix, Len(l) + Suffix < Cap
    PROVE  LET t == [k \in 1 .. n |-> "t"]
           IN  Holds(Store(a, Len(l), Append(t, "0")), l \o t)
<1> DEFINE t == [k \in 1 .. n |-> "t"]
           b == Store(a, Len(l), Append(t, "0"))
<1>1. /\ n \in Nat /\ n >= 1 /\ n <= Suffix /\ Suffix \in Nat /\ Cap \in Nat
      /\ Len(l) \in Nat
    BY BufferAssumption
<1>2. /\ t \in Seq(Chars) /\ Len(t) = n
      /\ \A k \in 1 .. n : t[k] = "t"
      /\ Len(Append(t, "0")) = n + 1
      /\ \A k \in 1 .. n : Append(t, "0")[k] = "t"
      /\ Append(t, "0")[n + 1] = "0"
    BY SuffixIsSeq
<1> HIDE DEF t
<1>3. \A x \in Cells :
          b[x] = IF x \in Len(l) .. Len(l) + n
                 THEN Append(t, "0")[x - Len(l) + 1] ELSE a[x]
    BY <1>1, <1>2 DEF Store, Cells
<1> HIDE DEF b
<1>4. /\ l \o t \in Seq(Chars) /\ Len(l \o t) = Len(l) + n
      /\ \A k \in 1 .. Len(l) : (l \o t)[k] = l[k]
      /\ \A k \in Len(l) + 1 .. Len(l) + n : (l \o t)[k] = "t"
    <2>1. \A k \in 1 .. Len(l) + n : (l \o t)[k] =
              IF k <= Len(l) THEN l[k] ELSE t[k - Len(l)]
        BY <1>2, ConcatProperties
    <2>2. \A k \in Len(l) + 1 .. Len(l) + n : k - Len(l) \in 1 .. n
        BY <1>1
    <2>3. l \o t \in Seq(Chars) /\ Len(l \o t) = Len(l) + n
        BY <1>2, ConcatProperties
    <2>4. ASSUME NEW k \in 1 .. Len(l) PROVE (l \o t)[k] = l[k]
        BY <1>1, <2>1
    <2>5. ASSUME NEW k \in Len(l) + 1 .. Len(l) + n PROVE (l \o t)[k] = "t"
        <3>1. k \in 1 .. Len(l) + n /\ ~(k <= Len(l))
            BY <1>1
        <3> QED BY <1>2, <2>1, <2>2, <3>1
    <2> QED BY <2>3, <2>4, <2>5
<1>5. Len(l) + n < Cap
    BY <1>1
<1>6. b[Len(l) + n] = "0"
    <2>1. /\ Len(l) + n \in Cells /\ Len(l) + n \in Len(l) .. Len(l) + n
          /\ Len(l) + n - Len(l) + 1 = n + 1
        BY <1>1, <1>5 DEF Cells
    <2> QED BY <1>2, <1>3, <2>1
<1>7. ASSUME NEW x \in 0 .. Len(l) + n - 1
      PROVE  b[x] = (l \o t)[x + 1]
    <2>1. x \in Cells
        BY <1>1, <1>5 DEF Cells
    <2>2. CASE x < Len(l)
        BY <1>1, <1>3, <1>4, <2>1, <2>2 DEF Holds
    <2>3. CASE ~(x < Len(l))
        <3>1. x - Len(l) + 1 \in 1 .. n
            BY <1>1, <2>3
        <3>2. x + 1 \in Len(l) + 1 .. Len(l) + n
            BY <1>1, <2>3
        <3>3. x \in Len(l) .. Len(l) + n
            BY <1>1, <2>3
        <3> QED BY <1>2, <1>3, <1>4, <2>1, <3>1, <3>2, <3>3
    <2> QED BY <2>2, <2>3
<1>8. \A k \in 1 .. Len(l) + n : (l \o t)[k] # "0"
    BY <1>1, <1>4 DEF Holds
<1>9. Holds(b, l \o t)
    BY <1>4, <1>5, <1>6, <1>7, <1>8 DEF Holds
<1> QED BY <1>9 DEF b, t

\* The file up to its last printable character, if n is where that is.
LEMMA CleanIsPrefix ==
    ASSUME NEW f \in Seq(Chars), NEW n \in 0 .. Len(f),
           \A k \in n + 1 .. Len(f) : Blank(f[k]),
           n = 0 \/ ~Blank(f[n])
    PROVE  /\ Clean(f) \in Seq(Chars) /\ Len(Clean(f)) = n
           /\ \A k \in 1 .. n :
                 Clean(f)[k] = IF Control(f[k]) THEN " " ELSE f[k]
<1> DEFINE ink == {k \in 1 .. Len(f) : ~Blank(f[k])}
           last == IF ink = {} THEN 0
                   ELSE CHOOSE k \in ink : \A j \in ink : j <= k
<1>1. \A k \in ink : k \in 1 .. n
    OBVIOUS
<1>2. last = n
    <2>1. CASE n = 0
        BY <1>1, <2>1
    <2>2. CASE n # 0
        <3>1. n \in ink /\ \A j \in ink : j <= n
            BY <1>1, <2>2
        <3>2. \A k \in ink : (\A j \in ink : j <= k) => k = n
            BY <1>1, <3>1
        <3> HIDE DEF ink
        <3> QED BY <3>1, <3>2
    <2> QED BY <2>1, <2>2
<1>3. Clean(f) = [k \in 1 .. last |-> IF Control(f[k]) THEN " " ELSE f[k]]
    BY DEF Clean
<1> HIDE DEF last
<1>4. Clean(f) = [k \in 1 .. n |-> IF Control(f[k]) THEN " " ELSE f[k]]
    BY <1>2, <1>3
<1>5. Clean(f) \in [1 .. n -> Chars]
    <2>1. " " \in Chars
        BY DEF Chars
    <2>2. \A k \in 1 .. n : f[k] \in Chars
        OBVIOUS
    <2> QED BY <1>4, <2>1, <2>2
<1>6. Clean(f) \in Seq(Chars) /\ Len(Clean(f)) = n
    BY <1>5, SeqDef
<1> QED BY <1>4, <1>6

\* Cleaned, any file is a string.
LEMMA CleanIsLine ==
    ASSUME NEW f \in Seq(Chars) PROVE Clean(f) \in Seq(Chars)
<1> DEFINE T == {n \in 0 .. Len(f) : \A k \in n + 1 .. Len(f) : Blank(f[k])}
<1>1. Len(f) \in T /\ T \subseteq Nat
    OBVIOUS
<1>2. PICK n \in T : \A m \in T : n <= m
    BY <1>1, LeastNatural
<1>3. /\ n \in 0 .. Len(f) /\ Len(f) \in Nat
      /\ \A k \in n + 1 .. Len(f) : Blank(f[k])
    OBVIOUS
<1>4. n = 0 \/ ~Blank(f[n])
    <2> SUFFICES ASSUME n # 0, Blank(f[n]) PROVE FALSE
        OBVIOUS
    <2>1. n - 1 \in 0 .. Len(f) /\ ~(n <= n - 1)
        BY <1>3
    <2>2. \A k \in n - 1 + 1 .. Len(f) : k = n \/ k \in n + 1 .. Len(f)
        BY <1>3
    <2>3. n - 1 \in T
        BY <1>3, <2>1, <2>2
    <2> QED BY <1>2, <2>1, <2>3
<1> HIDE DEF T
<1> QED BY <1>3, <1>4, CleanIsPrefix

-----------------------------------------------------------------------------
(* The steps                                                               *)

\* A line of the user's at the head of a buffer of zeros.
LEMMA LineInit == Init => LineInv
<1> SUFFICES ASSUME Init PROVE LineInv
    OBVIOUS
<1>1. /\ user \in UserLines /\ user \in Seq(Chars) /\ Len(user) \in Nat
      /\ Len(user) < Cap /\ file \in Seq(Chars)
    BY LinesAssumption DEF Init
<1>2. \A k \in 1 .. Len(user) : user[k] \in Chars /\ user[k] # "0"
    BY <1>1, LinesAssumption
<1>3. cmd_line = [x \in Cells |-> IF x \in 0 .. Len(user) - 1
                                  THEN user[x + 1] ELSE "0"]
    BY <1>1 DEF Init, Store, Zeros, Cells
<1>4. cmd_line \in [Cells -> Chars]
    <2>1. ASSUME NEW x \in Cells, x \in 0 .. Len(user) - 1
          PROVE  user[x + 1] \in Chars
        BY <1>1, <1>2, <2>1
    <2>2. "0" \in Chars
        BY DEF Chars
    <2> QED BY <1>3, <2>1, <2>2
<1>5. Holds(cmd_line, user)
    <2>1. Len(user) \in Cells /\ ~(Len(user) \in 0 .. Len(user) - 1)
        BY <1>1, BufferAssumption DEF Cells
    <2>2. \A x \in 0 .. Len(user) - 1 : x \in Cells
        BY <1>1, BufferAssumption DEF Cells
    <2> QED BY <1>1, <1>2, <1>3, <2>1, <2>2 DEF Holds
<1>6. LineTypeOK
    BY <1>1, <1>4, BufferAssumption DEF Init, LineTypeOK, Ahead, Room
<1>7. LastIsNul
    <2>1. Cap - 1 \in Cells /\ (Cap - 1 \in 0 .. Len(user) - 1 => FALSE)
        BY <1>1, BufferAssumption DEF Cells
    <2> QED BY <1>3, <2>1 DEF LastIsNul
<1> QED BY <1>5, <1>6, <1>7
        DEF Init, LineInv, Released, UserKept, FileRead, Stripped, FileCleaned,
            BootedLineIsWhole

\* A step that keeps buffer and counts, to a label that promises no more.
LEMMA LineUntouched ==
    ASSUME LineInv, UNCHANGED <<cmd_line, size, got, file, user>>,
           \/ pc' = pc /\ UNCHANGED <<lease, used>>
           \/ pc \in Ahead /\ pc' \in Ahead \cup {"user", "halt"}
           \/ pc = "user" /\ pc' = "release" /\ used' = "user"
           \/ pc = "release" /\ pc' = "suffix" /\ ~lease' /\ used' = used
           \/ pc' = "halt"
    PROVE  LineInv'
<1> USE DEF LineInv, Ahead
<1>1. LineTypeOK' /\ LastIsNul'
    BY DEF LineTypeOK, LastIsNul
<1>2. Released'
    BY DEF LineTypeOK, Released
<1>3. UserKept' /\ FileCleaned'
    BY DEF LineTypeOK, UserKept, FileCleaned, Holds
<1>4. FileRead' /\ Stripped'
    BY DEF LineTypeOK, FileRead, Stripped
<1>5. BootedLineIsWhole'
    <2>1. pc' = "boot" => pc = "boot" /\ used' = used
        BY DEF LineTypeOK
    <2>2. Line(cmd_line)' = Line(cmd_line)
        BY DEF Line, StrLen
    <2>3. /\ Booted(user)' <=> Booted(user)
          /\ Booted(Clean(file))' <=> Booted(Clean(file))
        BY <2>2 DEF Booted, Clean
    <2> QED BY <2>1, <2>3 DEF BootedLineIsWhole
<1> QED BY <1>1, <1>2, <1>3, <1>4, <1>5

\* A block of the file behind those before it.
LEMMA BlockKeeps ==
    ASSUME LineInv, ArgsBlock PROVE LineInv'
<1> DEFINE b == NextBlock
<1>1. /\ got \in Nat /\ got < Len(file) /\ Len(file) \in Nat
      /\ file \in Seq(Chars) /\ Block \in Nat \ {0} /\ Cap \in Nat
      /\ cmd_line \in [Cells -> Chars] /\ pc = "args"
    BY BufferAssumption, TftpAssumption DEF ArgsBlock, LineInv, LineTypeOK
<1>2. PICK m \in Nat : /\ m >= 1 /\ got + m <= Len(file)
                       /\ b = SubSeq(file, got + 1, got + m)
    <2>1. CASE got + Block < Len(file)
        <3>1. /\ Block \in Nat /\ Block >= 1 /\ got + Block <= Len(file)
              /\ b = SubSeq(file, got + 1, got + Block)
            BY <1>1, <2>1 DEF NextBlock
        <3> HIDE DEF b
        <3> QED BY <3>1
    <2>2. CASE ~(got + Block < Len(file))
        <3> DEFINE n == Len(file) - got
        <3>1. n \in Nat /\ n >= 1 /\ got + n = Len(file)
            BY <1>1
        <3> HIDE DEF n
        <3>2. b = SubSeq(file, got + 1, got + n)
            BY <2>2, <3>1 DEF NextBlock
        <3>3. got + n <= Len(file)
            BY <1>1, <3>1
        <3> HIDE DEF b
        <3> QED BY <3>1, <3>2, <3>3
    <2> QED BY <2>1, <2>2
<1>3. /\ b \in Seq(Chars) /\ Len(b) = m
      /\ \A k \in 1 .. m : b[k] = file[got + k]
    <2>1. /\ got + 1 \in 1 .. Len(file) + 1 /\ got + m \in got .. Len(file)
          /\ got + m \in Int /\ got + 1 \in Int
        BY <1>1, <1>2
    <2>2. \A k \in got + 1 .. got + m : file[k] \in Chars
        BY <1>1, <1>2
    <2> HIDE DEF b
    <2>3. /\ b \in Seq(Chars)
          /\ Len(b) = IF got + 1 <= got + m THEN got + m - (got + 1) + 1 ELSE 0
          /\ \A k \in 1 .. got + m - (got + 1) + 1 : b[k] = file[got + 1 + k - 1]
        BY <1>1, <1>2, <2>1, <2>2, SubSeqProperties
    <2>4. got + m - (got + 1) + 1 = m /\ got + 1 <= got + m
        BY <1>1, <1>2
    <2>5. \A k \in 1 .. m : got + 1 + k - 1 = got + k
        BY <1>1, <1>2
    <2> QED BY <2>3, <2>4, <2>5
<1> HIDE DEF b
<1>4. /\ got' = got + m /\ got + m <= Room
      /\ cmd_line' = [x \in Cells |-> IF x \in got .. got + m - 1
                                       THEN b[x - got + 1] ELSE cmd_line[x]]
      /\ UNCHANGED <<pc, size, lease, used, file, user>>
    BY <1>3 DEF b, ArgsBlock, Store, Cells, Given
<1>5. cmd_line' \in [Cells -> Chars]
    <2>1. ASSUME NEW x \in Cells, x \in got .. got + m - 1
          PROVE  b[x - got + 1] \in Chars
        <3>1. x - got + 1 \in 1 .. m
            BY <1>1, <1>2, <2>1
        <3> QED BY <1>3, <3>1
    <2> QED BY <1>1, <1>4, <2>1
<1>6. LineTypeOK'
    BY <1>1, <1>2, <1>4, <1>5 DEF LineInv, LineTypeOK, Room
<1>7. ASSUME NEW x \in 0 .. got' - 1
      PROVE  cmd_line'[x] = file[x + 1]
    <2>1. x \in Cells
        BY <1>1, <1>2, <1>4 DEF Cells, Room
    <2>2. CASE x < got
        <3>1. x \in 0 .. got - 1 /\ ~(x \in got .. got + m - 1)
            BY <1>1, <2>2
        <3>2. cmd_line[x] = file[x + 1]
            BY <1>1, <3>1 DEF LineInv, FileRead, Ahead
        <3> QED BY <1>4, <2>1, <3>1, <3>2
    <2>3. CASE ~(x < got)
        <3>1. /\ x - got + 1 \in 1 .. m /\ x \in got .. got + m - 1
              /\ got + (x - got + 1) = x + 1
            BY <1>1, <1>2, <1>4, <2>3
        <3> QED BY <1>3, <1>4, <2>1, <3>1
    <2> QED BY <2>2, <2>3
<1>8. FileRead'
    BY <1>4, <1>7 DEF FileRead
<1>9. UserKept'
    BY <1>1, <1>2, <1>4 DEF UserKept
<1>10. LastIsNul'
    <2>1. Cap - 1 \in Cells /\ ~(Cap - 1 \in got .. got + m - 1)
        BY <1>1, <1>2, <1>4 DEF Cells, Room
    <2> QED BY <1>4, <2>1 DEF LineInv, LastIsNul
<1> QED BY <1>1, <1>4, <1>6, <1>8, <1>9, <1>10
        DEF LineInv, Released, Stripped, FileCleaned, BootedLineIsWhole

\* The loop takes blanks off the end of the whole file.
LEMMA StripKeeps ==
    ASSUME LineInv, ArgsDone \/ Strip PROVE LineInv'
<1>1. /\ UNCHANGED <<cmd_line, lease, got, used, file, user>>
      /\ pc \in {"args", "strip"} /\ pc' \in {"strip", "terminate", "undefined"}
    BY DEF ArgsDone, Strip, Given, AfterBlank
<1>2. /\ size \in Nat /\ got \in Nat /\ Len(file) \in Nat /\ Cap \in Nat
      /\ \A x \in 0 .. got - 1 : cmd_line[x] = file[x + 1]
    BY <1>1, BufferAssumption DEF LineInv, LineTypeOK, FileRead, Ahead
<1>3. Stripped' /\ size' \in 0 .. Room
    <2>1. CASE ArgsDone
        BY <1>1, <1>2, <2>1 DEF ArgsDone, Stripped, LineInv, LineTypeOK
    <2>2. CASE Strip /\ size = 0
        BY <1>1, <1>2, <2>2 DEF Strip, Stripped, LineInv, LineTypeOK
    <2>3. CASE Strip /\ size # 0
        <3>1. /\ pc = "strip" /\ got = Len(file) /\ size <= Len(file)
              /\ \A k \in size + 1 .. Len(file) : Blank(file[k])
            BY <2>3 DEF Strip, LineInv, Stripped
        <3>2. cmd_line[size - 1] = file[size]
            <4>1. size - 1 \in 0 .. got - 1 /\ size - 1 + 1 = size
                BY <1>2, <2>3, <3>1
            <4> QED BY <1>2, <4>1
        <3>3. CASE Blank(file[size])
            <4>1. /\ size' = size - 1
                  /\ pc' = IF size = 1 THEN "terminate" ELSE "strip"
                BY <2>3, <3>2, <3>3 DEF Strip, AfterBlank
            <4>2. \A k \in size' + 1 .. Len(file) :
                      k = size \/ k \in size + 1 .. Len(file)
                BY <1>2, <2>3, <4>1
            <4>3. /\ size' <= Len(file) /\ size' \in 0 .. Room
                  /\ size = 1 => size' = 0
                BY <1>2, <2>3, <3>1, <4>1 DEF LineInv, LineTypeOK, Room
            <4> QED BY <1>1, <3>1, <3>3, <4>1, <4>2, <4>3 DEF Stripped
        <3>4. CASE ~Blank(file[size])
            <4>1. size' = size /\ pc' = "terminate"
                BY <2>3, <3>2, <3>4 DEF Strip
            <4> QED BY <1>1, <3>1, <3>4, <4>1
                    DEF Stripped, LineInv, LineTypeOK
        <3> QED BY <3>3, <3>4
    <2> QED BY <2>1, <2>2, <2>3
<1>4. LineTypeOK'
    BY <1>1, <1>3 DEF LineInv, LineTypeOK
<1>5. FileRead'
    BY <1>1, <1>2 DEF FileRead
<1> QED BY <1>1, <1>3, <1>4, <1>5
        DEF LineInv, LastIsNul, Released, UserKept, FileCleaned,
            BootedLineIsWhole, Ahead

\* What is left is the file, cleaned, and the NUL behind it.
LEMMA TerminateKeeps ==
    ASSUME LineInv, Terminate PROVE LineInv'
<1>1. /\ pc = "terminate" /\ pc' = "release" /\ used' = "file"
      /\ UNCHANGED <<size, lease, got, file, user>>
      /\ cmd_line' = [x \in Cells |->
                         IF x = size THEN "0"
                         ELSE IF x < size /\ Control(cmd_line[x]) THEN " "
                         ELSE cmd_line[x]]
    BY DEF Terminate, Given, Cells
<1>2. /\ size \in Nat /\ size < Cap /\ Cap \in Nat /\ size <= Len(file)
      /\ Len(file) \in Nat /\ file \in Seq(Chars) /\ got = Len(file)
      /\ cmd_line \in [Cells -> Chars]
    <2>1. LineTypeOK /\ size <= Len(file) /\ got = Len(file)
        BY <1>1 DEF LineInv, Stripped
    <2> QED BY <2>1, BufferAssumption DEF LineTypeOK, Room
<1>3. "0" \in Chars /\ " " \in Chars /\ " " # "0"
    BY DEF Chars
<1>4. LineTypeOK'
    <2>1. cmd_line' \in [Cells -> Chars]
        BY <1>1, <1>2, <1>3
    <2> QED BY <1>1, <2>1 DEF LineInv, LineTypeOK
<1>5. /\ size \in 0 .. Len(file)
      /\ \A k \in size + 1 .. Len(file) : Blank(file[k])
      /\ size = 0 \/ ~Blank(file[size])
    <2>1. Stripped /\ pc = "terminate"
        BY <1>1 DEF LineInv
    <2>2. size \in 0 .. Len(file)
        BY <1>2
    <2> QED BY <2>1, <2>2 DEF Stripped
<1>6. /\ Len(Clean(file)) = size
      /\ \A k \in 1 .. size : Clean(file)[k] = IF Control(file[k]) THEN " "
                                               ELSE file[k]
    BY <1>2, <1>5, CleanIsPrefix
<1>7. cmd_line'[size] = "0"
    <2>1. size \in Cells
        BY <1>2 DEF Cells
    <2> QED BY <1>1, <2>1
<1>8. ASSUME NEW x \in 0 .. size - 1
      PROVE  cmd_line'[x] = Clean(file)[x + 1]
    <2>1. /\ x \in Cells /\ x # size /\ x < size /\ x + 1 \in 1 .. size
          /\ x \in 0 .. got - 1
        BY <1>2 DEF Cells
    <2>2. cmd_line[x] = file[x + 1]
        BY <1>1, <2>1 DEF LineInv, FileRead
    <2> QED BY <1>1, <1>6, <2>1, <2>2
<1>9. \A k \in 1 .. size : Clean(file)[k] # "0"
    BY <1>3, <1>6 DEF Control
<1>10. Holds(cmd_line', Clean(file))
    BY <1>2, <1>6, <1>7, <1>8, <1>9 DEF Holds
<1>11. Clean(file)' = Clean(file)
    BY <1>1 DEF Clean
<1>12. FileCleaned'
    BY <1>10, <1>11 DEF FileCleaned, Holds
<1>13. LastIsNul'
    <2>1. Cap - 1 \in Cells /\ (Cap - 1 = size \/ ~(Cap - 1 < size))
        BY <1>2 DEF Cells
    <2>2. cmd_line[Cap - 1] = "0" /\ ~(Cap - 1 < size)
        BY <1>2 DEF LineInv, LastIsNul
    <2> QED BY <1>1, <2>1, <2>2 DEF LastIsNul
<1> QED BY <1>1, <1>4, <1>12, <1>13
        DEF LineInv, Released, UserKept, FileRead, Stripped, BootedLineIsWhole,
            Ahead

\* The suffix behind the line.
LEMMA SuffixKeeps ==
    ASSUME LineInv, NEW n \in 1 .. Suffix, AddSuffix(n) PROVE LineInv'
<1> DEFINE t == [k \in 1 .. n |-> "t"]
<1>1. /\ pc = "suffix" /\ pc' = "boot"
      /\ StrLen(cmd_line) + Suffix < Cap
      /\ cmd_line' = Store(cmd_line, StrLen(cmd_line), Append(t, "0"))
      /\ UNCHANGED <<size, lease, got, used, file, user>>
    BY DEF AddSuffix, HasSpace, Given
<1>2. /\ t \in Seq(Chars) /\ Len(t) = n
      /\ Append(t, "0") \in Seq(Chars) /\ Len(Append(t, "0")) = n + 1
      /\ Append(t, "0")[n + 1] = "0"
    BY SuffixIsSeq
<1> HIDE DEF t
<1>3. ASSUME NEW l \in Seq(Chars), Holds(cmd_line, l)
      PROVE  Booted(l)'
    <2>1. StrLen(cmd_line) = Len(l)
        BY <1>3, HeldIsLine
    <2>2. Holds(cmd_line', l \o t)
        BY <1>1, <1>3, <2>1, SuffixIsHeld DEF t
    <2>3. l \o t \in Seq(Chars)
        BY <1>2, ConcatProperties
    <2>4. Line(cmd_line') = l \o t
        BY <2>2, <2>3, HeldIsLine
    <2>5. cmd_line'[Len(l \o t)] = "0" /\ Len(l \o t) \in 0 .. Cap - 1
        BY <2>2, <2>3, LenProperties, BufferAssumption DEF Holds
    <2> QED BY <2>4, <2>5 DEF Booted, t, Line, StrLen
<1>4. /\ StrLen(cmd_line) \in Nat /\ n \in Nat /\ Cap \in Nat
      /\ StrLen(cmd_line) + n < Cap
    <2>1. StrLen(cmd_line) \in Nat
        BY StrLenEnds DEF LineInv, LastIsNul, Cells
    <2> QED BY <1>1, <2>1, BufferAssumption
<1>5. \A x \in Cells :
          cmd_line'[x] = IF x \in StrLen(cmd_line) .. StrLen(cmd_line) + n
                         THEN Append(t, "0")[x - StrLen(cmd_line) + 1]
                         ELSE cmd_line[x]
    BY <1>1, <1>2, <1>4 DEF Store, Cells
<1>6. LineTypeOK'
    <2>1. ASSUME NEW x \in Cells PROVE cmd_line'[x] \in Chars
        <3>1. CASE x \in StrLen(cmd_line) .. StrLen(cmd_line) + n
            <4>1. x - StrLen(cmd_line) + 1 \in 1 .. n + 1
                BY <1>4, <3>1
            <4> QED BY <1>2, <1>5, <3>1, <4>1, ElementOfSeq
        <3>2. CASE ~(x \in StrLen(cmd_line) .. StrLen(cmd_line) + n)
            BY <1>5, <3>2 DEF LineInv, LineTypeOK
        <3> QED BY <3>1, <3>2
    <2>2. DOMAIN cmd_line' = Cells
          /\ cmd_line' = [x \in DOMAIN cmd_line' |-> cmd_line'[x]]
        BY <1>1 DEF Store, Cells
    <2>3. cmd_line' \in [Cells -> Chars]
        BY <2>1, <2>2
    <2> QED BY <1>1, <2>3 DEF LineInv, LineTypeOK, Ahead
<1>7. LastIsNul'
    <2>1. Cap - 1 \in Cells
        BY <1>4 DEF Cells
    <2>2. CASE Cap - 1 = StrLen(cmd_line) + n
        <3>1. /\ Cap - 1 \in StrLen(cmd_line) .. StrLen(cmd_line) + n
              /\ Cap - 1 - StrLen(cmd_line) + 1 = n + 1
            BY <1>4, <2>2
        <3> QED BY <1>2, <1>5, <2>1, <3>1 DEF LastIsNul
    <2>3. CASE Cap - 1 # StrLen(cmd_line) + n
        <3>1. ~(Cap - 1 \in StrLen(cmd_line) .. StrLen(cmd_line) + n)
            BY <1>4, <2>3
        <3> QED BY <1>5, <2>1, <3>1 DEF LineInv, LastIsNul
    <2> QED BY <2>2, <2>3
<1>8. BootedLineIsWhole'
    <2>1. user \in Seq(Chars) /\ user' = user
        BY <1>1, LinesAssumption DEF LineInv, LineTypeOK
    <2>2. Clean(file) \in Seq(Chars) /\ Clean(file)' = Clean(file)
        BY <1>1, CleanIsLine DEF LineInv, LineTypeOK, Clean
    <2>3. used = "user" /\ got = 0 => Booted(user)'
        BY <1>1, <1>3, <2>1 DEF LineInv, UserKept
    <2>4. used = "file" => Booted(Clean(file))'
        BY <1>1, <1>3, <2>2 DEF LineInv, FileCleaned, Booted
    <2> QED BY <1>1, <2>3, <2>4 DEF BootedLineIsWhole
<1> QED BY <1>1, <1>6, <1>7, <1>8
        DEF LineInv, Released, UserKept, FileRead, Stripped, FileCleaned, Ahead

\* Every step keeps the invariant.
LEMMA LineNext == LineInv /\ [Next]_vars => LineInv'
<1> SUFFICES ASSUME LineInv, [Next]_vars PROVE LineInv'
    OBVIOUS
<1>1. CASE \/ LinkUp \/ DhcpFails \/ DhcpAnswers \/ BootfileRead
           \/ BootfileFails \/ ArgsFails
    BY <1>1, LineUntouched
       DEF LinkUp, DhcpFails, DhcpAnswers, BootfileRead, BootfileFails,
           ArgsFails, Given, Ahead, LineInv, LineTypeOK
<1>2. CASE UserLine \/ Release \/ ReleaseFails \/ NoSpace
    BY <1>2, LineUntouched DEF UserLine, Release, ReleaseFails, NoSpace, Given
<1>3. CASE UNCHANGED vars
    BY <1>3, LineUntouched DEF vars
<1> QED BY <1>1, <1>2, <1>3, BlockKeeps, StripKeeps, TerminateKeeps, SuffixKeeps
        DEF Next, Stopped

\* The invariant holds in every reachable state.
LEMMA LineAlways == Spec => []LineInv
BY LineInit, LineNext, PTL DEF Spec

-----------------------------------------------------------------------------
(* The theorems                                                            *)

\* The kernel is booted with the whole file, cleaned, or with the whole line of
\* the user's when no byte of a file arrived.
THEOREM NetbootLineIsWhole == Spec => []BootedLineIsWhole
<1>1. LineInv => BootedLineIsWhole
    BY DEF LineInv
<1> QED BY <1>1, LineAlways, PTL

\* The kernel never starts while the server holds an address.
THEOREM NetbootLeaseGivenBack == Spec => []LeaseGivenBack
<1>1. LineInv => LeaseGivenBack
    BY DEF LineInv, Released, LeaseGivenBack
<1> QED BY <1>1, LineAlways, PTL

\* At the strip loop of a file that is not empty there is a byte to look at.
ByteLeft == pc = "strip" /\ file # << >> => size > 0

\* An access that the step makes inside the buffer adds nothing.
LEMMA TouchInside ==
    ASSUME NEW place, NEW a \in Int, NEW b \in Int, Touches(place, a, b),
           a >= 0, b < Cap
    PROVE  outside' = outside
BY DEF Touches

\* For every size of the buffer, every line, file and address, no access leaves
\* the buffer but that of the strip loop over an empty file.
THEOREM NetbootNeverOutOfBounds == Spec => []NeverOutOfBounds
<1>1. Init => ByteLeft /\ NeverOutOfBounds
    BY DEF Init, ByteLeft, NeverOutOfBounds
<1>2. LineInv /\ LineInv' /\ ByteLeft /\ NeverOutOfBounds /\ [Next]_vars =>
          ByteLeft' /\ NeverOutOfBounds'
    <2> SUFFICES ASSUME LineInv, LineInv', ByteLeft, NeverOutOfBounds,
                        [Next]_vars
                 PROVE  ByteLeft' /\ NeverOutOfBounds'
        OBVIOUS
    <2>1. /\ file \in Seq(Chars) /\ Len(file) \in Nat /\ Cap \in Nat
          /\ size \in Nat /\ size < Cap
          /\ got \in Nat /\ got' \in Nat /\ got' < Cap
        BY BufferAssumption DEF LineInv, LineTypeOK, Room
    <2>2. CASE ArgsDone
        <3>1. file # << >> => Len(file) > 0
            BY <2>1, EmptySeq
        <3> QED BY <2>1, <2>2, <3>1
                DEF ArgsDone, ByteLeft, NeverOutOfBounds, Given
    <2>3. CASE Strip
        <3>1. file = file' /\ (file # << >> => size > 0)
            BY <2>3 DEF Strip, ByteLeft, Given
        <3>2. size > 0 => outside' = outside
            <4>1. size - 1 \in Int /\ (size > 0 => size - 1 >= 0)
                  /\ size - 1 < Cap
                BY <2>1
            <4> QED BY <2>3, <4>1, TouchInside DEF Strip
        <3>3. outside' \subseteq outside \cup {"strip"}
            BY <2>3 DEF Strip, Touches
        <3>4. NeverOutOfBounds'
            BY <3>1, <3>2, <3>3 DEF NeverOutOfBounds
        <3>5. ByteLeft'
            BY <2>1, <2>3, <3>1 DEF Strip, AfterBlank, ByteLeft
        <3> QED BY <3>4, <3>5
    <2>4. CASE \E n \in 1 .. Suffix : AddSuffix(n)
        <3>1. PICK n \in 1 .. Suffix : AddSuffix(n)
            BY <2>4
        <3>2. /\ StrLen(cmd_line) \in Int /\ StrLen(cmd_line) >= 0
              /\ StrLen(cmd_line) + n \in Int /\ StrLen(cmd_line) + n < Cap
            <4>1. StrLen(cmd_line) \in Nat
                BY <2>1, StrLenEnds DEF LineInv, LastIsNul, Cells
            <4> QED BY <2>1, <3>1, <4>1, BufferAssumption
                    DEF AddSuffix, HasSpace
        <3>3. outside' = outside
            BY <3>1, <3>2, TouchInside DEF AddSuffix
        <3> QED BY <3>1, <3>3 DEF AddSuffix, ByteLeft, NeverOutOfBounds, Given
    <2>5. CASE Terminate
        <3>1. Touches("nul", 0, size) /\ 0 \in Int /\ size \in Int /\ size < Cap
            <4>1. 0 \in Int /\ size \in Int /\ size < Cap
                BY <2>1
            <4>2. Touches("nul", 0, size)
                BY <2>5 DEF Terminate
            <4> QED BY <4>1, <4>2
        <3>2. outside' = outside
            BY <3>1 DEF Touches
        <3> QED BY <2>5, <3>2 DEF Terminate, ByteLeft, NeverOutOfBounds, Given
    <2>6. CASE ArgsBlock
        <3>1. \A g \in Nat : g < Cap => g - 1 \in Int /\ g - 1 < Cap
            BY <2>1
        <3>2. outside' = outside
            <4>1. got' - 1 \in Int /\ got' - 1 < Cap
                BY <2>1, <3>1
            <4>2. got \in Int /\ got >= 0
                BY <2>1
            <4>3. Touches("tftp", got, got' - 1)
                BY <2>6 DEF ArgsBlock
            <4> QED BY <4>1, <4>2, <4>3 DEF Touches
        <3> QED BY <2>6, <3>2 DEF ArgsBlock, ByteLeft, NeverOutOfBounds, Given
    <2>7. CASE \/ LinkUp \/ DhcpFails \/ DhcpAnswers \/ BootfileRead
               \/ BootfileFails \/ ArgsFails
        BY <2>7 DEF LinkUp, DhcpFails, DhcpAnswers, BootfileRead, BootfileFails,
                    ArgsFails, ByteLeft, NeverOutOfBounds, Given
    <2>8. CASE UserLine \/ Release \/ ReleaseFails \/ NoSpace \/ UNCHANGED vars
        BY <2>8 DEF UserLine, Release, ReleaseFails, NoSpace, vars, ByteLeft,
                    NeverOutOfBounds, Given
    <2> QED BY <2>2, <2>3, <2>4, <2>5, <2>6, <2>7, <2>8 DEF Next, Stopped
<1> QED BY <1>1, <1>2, LineAlways, PTL DEF Spec
=============================================================================
