------------------------------- MODULE Netboot -------------------------------
(***************************************************************************)
(* netboot() of the netboot payload this repository patches                *)
(* (patches/depthcharge-netboot-cmdline.patched): link, DHCP until it      *)
(* answers, the boot file and the command line by TFTP, the release of the *)
(* lease, the command line's suffix, boot().  The one buffer cmd_line[]    *)
(* holds the user's line, receives the TFTP file and is booted with;       *)
(* netboot_entry() passes it as args too.  The network calls are external. *)
(***************************************************************************)
EXTENDS Integers, Sequences

CONSTANTS Cap,        \* sizeof(cmd_line)
          Suffix,     \* length of " tftpserverip=xxx.xxx.xxx.xxx"
          UserLines,  \* lines netboot_params_read() may leave in cmd_line
          ArgsFiles,  \* contents the file argsfile may have on the server
          Block,      \* bytes of a TFTP block
          Failures,   \* after how many blocks a transfer of argsfile can fail
          MaxDhcp     \* bound: DHCP requests that fail

\* Characters: "u" and "f" stand for printable ones of the user's line and of
\* the file, " " and "n" (a control character) for the rest, "0" for NUL, "t"
\* for those of the suffix.
Chars == {"u", "f", " ", "n", "0", "t"}

ASSUME BufferAssumption == Cap \in Nat /\ Suffix \in Nat /\ Suffix < Cap
ASSUME TftpAssumption == Block \in Nat \ {0} /\ Failures \subseteq Nat
ASSUME BoundAssumption == MaxDhcp \in Nat
ASSUME LinesAssumption ==
    /\ UserLines \subseteq Seq(Chars) /\ ArgsFiles \subseteq Seq(Chars)
    /\ \A l \in UserLines : Len(l) < Cap /\ "0" \notin {l[k] : k \in DOMAIN l}

VARIABLES
    pc,
    cmd_line,    \* 0 .. Cap - 1, as the C array
    size,        \* the local size
    lease,       \* the DHCP server holds an address for us
    got,         \* bytes of argsfile received so far
    file, user,  \* history: the file on the server, the user's line
    has_file,    \* is argsfile specified?
    used,        \* history: "file", "user": whose line the message named
    dhcps,       \* history: failed requests
    outside      \* history: which accesses to cmd_line were not inside of it

vars == <<pc, cmd_line, size, lease, got, file, user, has_file, used, dhcps,
          outside>>

-----------------------------------------------------------------------------
(* C strings in an array                                                   *)

\* The array with the characters of s stored from index k on.
Store(a, k, s) == [x \in 0 .. Cap - 1 |->
                      IF x \in k .. k + Len(s) - 1 THEN s[x - k + 1] ELSE a[x]]

\* strlen(): every array here holds a NUL.
StrLen(a) == CHOOSE n \in 0 .. Cap - 1 :
                 a[n] = "0" /\ \A x \in 0 .. n - 1 : a[x] # "0"

Line(a) == [x \in 1 .. StrLen(a) |-> a[x - 1]]

Zeros == [x \in 0 .. Cap - 1 |-> "0"]

\* The code at a place reads or writes the cells from a to b.
Touches(place, a, b) ==
    outside' = IF a >= 0 /\ b < Cap THEN outside ELSE outside \cup {place}

Control(c) == c \in {"n", "0"}          \* c < ' '
Blank(c) == Control(c) \/ c = " "       \* c <= ' '

-----------------------------------------------------------------------------
Init ==
    /\ pc = "link"
    /\ user \in UserLines /\ file \in ArgsFiles /\ has_file \in BOOLEAN
    /\ cmd_line = Store(Zeros, 0, user)
    /\ size = 0 /\ got = 0
    /\ lease = FALSE
    /\ used = "none"
    /\ dhcps = 0
    /\ outside = {}

Given == <<file, user, has_file>>

\* net_wait_for_link() and uip_init().
LinkUp ==
    /\ pc = "link" /\ pc' = "dhcp"
    /\ UNCHANGED <<cmd_line, size, lease, got, used, dhcps, outside, Given>>

\* try_dhcp() until it succeeds.
DhcpFails ==
    /\ pc = "dhcp" /\ dhcps < MaxDhcp
    /\ dhcps' = dhcps + 1
    /\ UNCHANGED <<pc, cmd_line, size, lease, got, used, outside, Given>>

DhcpAnswers ==
    /\ pc = "dhcp" /\ pc' = "bootfile"
    /\ lease' = TRUE
    /\ UNCHANGED <<cmd_line, size, got, used, dhcps, outside, Given>>

\* tftp_read() of the boot file; without it the lease is given back, if the
\* release gets through, and the machine halts.
BootfileRead ==
    /\ pc = "bootfile"
    /\ pc' = IF has_file THEN "args" ELSE "user"
    /\ UNCHANGED <<cmd_line, size, lease, got, used, dhcps, outside, Given>>

BootfileFails ==
    /\ pc = "bootfile" /\ pc' = "halt"
    /\ lease' \in {FALSE, lease}
    /\ UNCHANGED <<cmd_line, size, got, used, dhcps, outside, Given>>

Room == Cap - 1

\* tftp_read() of argsfile into cmd_line, block by block; a block that does
\* not fit in sizeof(cmd_line) - 1 bytes is an error.
NextBlock == SubSeq(file, got + 1,
                    IF got + Block < Len(file) THEN got + Block ELSE Len(file))

ArgsBlock ==
    /\ pc = "args" /\ got < Len(file)
    /\ got + Len(NextBlock) <= Room
    /\ cmd_line' = Store(cmd_line, got, NextBlock)
    /\ got' = got + Len(NextBlock)
    /\ Touches("tftp", got, got' - 1)
    /\ UNCHANGED <<pc, size, lease, used, dhcps, Given>>

ArgsDone ==
    /\ pc = "args" /\ got = Len(file)
    /\ size' = got
    /\ pc' = "strip"
    /\ UNCHANGED <<cmd_line, lease, got, used, dhcps, outside, Given>>

ArgsFails ==
    /\ pc = "args"
    /\ \/ \E b \in Failures : got = b * Block
       \/ got + Len(NextBlock) > Room
    /\ pc' = "user"
    /\ UNCHANGED <<cmd_line, size, lease, got, used, dhcps, outside, Given>>

\* Mutant of AfterBlank: "if (!--size) break" without the break.
AfterBlankGoesOn(n) == "strip"
AfterBlank(n) == IF n = 1 THEN "terminate" ELSE "strip"

\* "while (cmd_line[size - 1] <= ' ') if (!--size) break;", a turn a step.  Of
\* an empty file it looks at the byte in front of the buffer, whatever that is:
\* a printable one ends it, any other makes size wrap, and the loop goes on
\* through memory this model knows nothing of.
Strip ==
    /\ pc = "strip"
    /\ Touches("strip", size - 1, size - 1)
    /\ IF size = 0
       THEN /\ pc' \in {"terminate", "undefined"}
            /\ UNCHANGED size
       ELSE IF Blank(cmd_line[size - 1])
            THEN /\ size' = size - 1
                 /\ pc' = AfterBlank(size)
            ELSE /\ pc' = "terminate"
                 /\ UNCHANGED size
    /\ UNCHANGED <<cmd_line, lease, got, used, dhcps, Given>>

\* The NUL, then control characters to spaces down to the first character.
Terminate ==
    /\ pc = "terminate"
    /\ cmd_line' = [x \in 0 .. Cap - 1 |->
                       IF x = size THEN "0"
                       ELSE IF x < size /\ Control(cmd_line[x]) THEN " "
                       ELSE cmd_line[x]]
    /\ Touches("nul", 0, size)
    /\ used' = "file"
    /\ pc' = "release"
    /\ UNCHANGED <<size, lease, got, dhcps, Given>>

\* args is cmd_line itself: nothing is copied.
UserLine ==
    /\ pc = "user" /\ pc' = "release"
    /\ used' = "user"
    /\ UNCHANGED <<cmd_line, size, lease, got, dhcps, outside, Given>>

Release ==
    /\ pc = "release" /\ pc' = "suffix"
    /\ lease' = FALSE
    /\ UNCHANGED <<cmd_line, size, got, used, dhcps, outside, Given>>

\* Mutant of ReleaseFails: the failure is only reported.
ReleaseFailsGoesOn ==
    /\ pc = "release" /\ pc' = "suffix"
    /\ UNCHANGED <<cmd_line, size, lease, got, used, dhcps, outside, Given>>

ReleaseFails ==
    /\ pc = "release" /\ pc' = "halt"
    /\ UNCHANGED <<cmd_line, size, lease, got, used, dhcps, outside, Given>>

\* Mutant of HasSpace: no room is kept for the NUL.
HasSpaceExactly == StrLen(cmd_line) + Suffix <= Cap
HasSpace == StrLen(cmd_line) + Suffix < Cap

\* Out of space: netboot() returns, and netboot_entry() halts.
NoSpace ==
    /\ pc = "suffix" /\ pc' = "halt"
    /\ ~HasSpace
    /\ UNCHANGED <<cmd_line, size, lease, got, used, dhcps, outside, Given>>

\* sprintf() of an address of any length up to the longest.
AddSuffix(n) ==
    /\ pc = "suffix" /\ pc' = "boot"
    /\ HasSpace
    /\ cmd_line' = Store(cmd_line, StrLen(cmd_line),
                         Append([k \in 1 .. n |-> "t"], "0"))
    /\ Touches("suffix", StrLen(cmd_line), StrLen(cmd_line) + n)
    /\ UNCHANGED <<size, lease, got, used, dhcps, Given>>

Stopped == pc \in {"halt", "boot", "undefined"} /\ UNCHANGED vars

Next == \/ LinkUp \/ DhcpFails \/ DhcpAnswers \/ BootfileRead \/ BootfileFails
        \/ ArgsBlock \/ ArgsDone \/ ArgsFails \/ Strip \/ Terminate \/ UserLine
        \/ Release \/ ReleaseFails \/ NoSpace
        \/ \E n \in 1 .. Suffix : AddSuffix(n)
        \/ Stopped

Spec == Init /\ [][Next]_vars

-----------------------------------------------------------------------------
(* Properties                                                              *)

\* Nothing in netboot() touches a byte outside of cmd_line, whatever the lengths
\* of the user's line, the file and the address: not the blocks of the transfer,
\* the strip loop, the NUL after it, nor the suffix and its NUL.  The one
\* exception is the strip loop over an empty file.
NeverOutOfBounds == outside \subseteq IF file = << >> THEN {"strip"} ELSE {}

\* The comment at the loop says what it does: "strip trailing whitespace and
\* control chars (\n, \r)" of the file; what it looks at is in the buffer.
StripsTheFile == "strip" \notin outside

\* What a command line file means: nothing after its last printable character,
\* and spaces for the control characters before it.
Clean(f) == LET ink  == {k \in 1 .. Len(f) : ~Blank(f[k])}
                last == IF ink = {} THEN 0
                        ELSE CHOOSE k \in ink : \A j \in ink : j <= k
            IN  [k \in 1 .. last |-> IF Control(f[k]) THEN " " ELSE f[k]]

\* The buffer holds the line l, the whole suffix and a NUL, inside its bounds.
Booted(l) ==
    /\ \E x \in 0 .. Cap - 1 : cmd_line[x] = "0"
    /\ \E n \in 1 .. Suffix : Line(cmd_line) = l \o [k \in 1 .. n |-> "t"]

\* The kernel is booted with one line, whole: the file, cleaned, or the user's
\* when no byte of a file arrived; nothing is left of what the buffer held
\* before, and a line too long for the suffix is not booted.
BootedLineIsWhole ==
    pc = "boot" => /\ used = "file" => Booted(Clean(file))
                   /\ used = "user" /\ got = 0 => Booted(user)

\* The comment over the branch: if the download of the command line file
\* "fails or file wasn't specified fall back to args parameter".
UserLineIsFallback == pc = "boot" /\ used = "user" => Booted(user)

\* The kernel never starts while the DHCP server still holds an address for
\* the boot loader.
LeaseGivenBack == pc = "boot" => ~lease
=============================================================================
