-------------------------------- MODULE Uuid --------------------------------
(***************************************************************************)
(* src/uuid.zig: a random UUID (version 4), printed, and read back by      *)
(* fromString after somebody has copied it with slips.  A character is a   *)
(* hexadecimal digit (its value), a hyphen, a plus or something else.      *)
(*                                                                         *)
(* The program prints UUIDs as the echoes of its requests and reads none.  *)
(* Left out: the sources of randomness and the hash of version 5.          *)
(* (Faulty_X: X with a bug, to see that the properties notice it.)         *)
(***************************************************************************)
EXTENDS Naturals, Sequences, SequencesExt

CONSTANTS Random,     \* sequences of 16 random bytes
          Slips,      \* characters written by mistake
          MaxSlips    \* bound on the number of slips

Size == 16
Length == 36

\* Characters: digits are below 16.
Hyphen == 16
Plus   == 17
Other  == 18
IsDigit(c) == c < 16

ASSUME UuidAssumption ==
    /\ \A bytes \in Random : /\ bytes \in Seq(Nat) /\ Len(bytes) = Size
                             /\ \A i \in 1..Size : bytes[i] < 256
    /\ \A c \in Slips : c \in Nat /\ c <= Other
    /\ MaxSlips \in Nat

VARIABLES uuid,    \* 16 bytes
          str,     \* its text as copied so far
          slips,   \* how many slips have been made
          digits   \* history: a digit, or a sign, was written by mistake

uuidVars == <<uuid, str, slips, digits>>

-----------------------------------------------------------------------------

\* (b & 0x0f) | 0x40 and (b & 0x3f) | 0x80
generateUUIDv4(bytes) == [bytes EXCEPT ![7] = (@ % 16) + 64, ![9] = (@ % 64) + 128]

\* Every byte as two digits.
toCompactString(bytes) ==
    [i \in 1..2 * Size |-> IF i % 2 = 1 THEN bytes[(i + 1) \div 2] \div 16
                                        ELSE bytes[i \div 2] % 16]

\* Hyphens in the text before its i-th character.
HyphensBefore(i) == IF i <= 9 THEN 0 ELSE IF i <= 14 THEN 1 ELSE IF i <= 19 THEN 2
                    ELSE IF i <= 24 THEN 3 ELSE 4

toString(bytes) ==
    [i \in 1..Length |-> IF i \in {9, 14, 19, 24} THEN Hyphen
                         ELSE toCompactString(bytes)[i - HyphensBefore(i)]]

Valid(bytes) == [is |-> "ok", bytes |-> bytes]
Error     == [is |-> "error"]

\* std.fmt.parseInt(u8, .., 16) of two characters: a sign may come first.
IsByte(c, d) == IsDigit(d) /\ (IsDigit(c) \/ c = Plus)
ByteOf(c, d) == IF c = Plus THEN d ELSE 16 * c + d

Faulty_Finish(bytes) ==   \* does not count the bytes
    Valid([i \in 1..Size |-> IF i <= Len(bytes) THEN bytes[i] ELSE 0])

Finish(bytes) == IF Len(bytes) = Size THEN Valid(bytes) ELSE Error

\* A round of the loop: place in the text, bytes so far, and whether it failed.
\* What follows the last byte is not looked at.
Round(s, r) ==
    IF r.failed \/ r.place > Len(s) \/ Len(r.bytes) = Size THEN r
    ELSE IF s[r.place] = Hyphen THEN [r EXCEPT !.place = @ + 1]
    ELSE IF r.place + 1 <= Len(s) /\ IsByte(s[r.place], s[r.place + 1])
    THEN [place |-> r.place + 2, failed |-> FALSE,
          bytes |-> Append(r.bytes, ByteOf(s[r.place], s[r.place + 1]))]
    ELSE [r EXCEPT !.failed = TRUE]

Rounds(s) ==   \* there are no more than characters
    LET after[n \in 0..Length] ==
            IF n = 0 THEN [place |-> 1, bytes |-> <<>>, failed |-> FALSE]
            ELSE Round(s, after[n - 1])
    IN  after

fromString(s) ==
    IF Len(s) # Length THEN Error
    ELSE LET r == Rounds(s)[Length] IN IF r.failed THEN Error ELSE Finish(r.bytes)

-----------------------------------------------------------------------------

UuidInit == /\ uuid \in {generateUUIDv4(bytes) : bytes \in Random}
            /\ str = toString(uuid)
            /\ slips = 0 /\ digits = FALSE

Slip(s, written) == /\ slips < MaxSlips
                    /\ slips' = slips + 1
                    /\ str' = s
                    /\ digits' = (digits \/ IsDigit(written) \/ written = Plus)
                    /\ UNCHANGED uuid

WriteOther == \E i \in DOMAIN str : \E c \in Slips : Slip([str EXCEPT ![i] = c], c)

LeaveOut == \E i \in DOMAIN str : Slip(RemoveAt(str, i), Hyphen)

WriteMore == \E i \in 1..Len(str) + 1 : \E c \in Slips : Slip(InsertAt(str, i, c), c)

UuidNext == WriteOther \/ LeaveOut \/ WriteMore

UuidSpec == UuidInit /\ [][UuidNext]_uuidVars

-----------------------------------------------------------------------------
(* What is printed is read as it was; it shows version 4 and variant 1.    *)
(* Hyphens may be anywhere between bytes, and characters after the last    *)
(* byte are ignored: still no slip, and no number of them, makes another   *)
(* UUID of a text, as long as no digit and no plus is written by mistake.  *)
(* (A digit for the last hyphen moves all that follow.)                    *)
ReadsOnlyItself ==
    /\ slips = 0 => /\ fromString(str) = Valid(uuid)
                    /\ str[15] = 4 /\ str[20] \in 8..11
    /\ fromString(str).is = "ok" /\ ~digits => fromString(str) = Valid(uuid)

=============================================================================
