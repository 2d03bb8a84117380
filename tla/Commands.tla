------------------------------ MODULE Commands ------------------------------
(***************************************************************************)
(* src/utils.zig, splitCommandStart and checkCommandStart, and what        *)
(* main.zig makes of the rest: the city a user asks for.  The code works   *)
(* on bytes, users write characters: the full-width mark has three bytes,  *)
(* and shares the first two with other full-width signs.                   *)
(* The state is a message as it is typed, as characters and as bytes.      *)
(* (Faulty_X: X with a bug, to see that the properties notice it.)         *)
(***************************************************************************)
EXTENDS Naturals, Sequences, SequencesExt

CONSTANTS Characters,  \* their UTF-8 bytes
          command,     \* characters of one byte: "jt", "ginfo"
          MaxLength,   \* of a message, in characters
          NoCommand    \* null

Byte  == {n \in Nat : n < 256}
ASCII == {n \in Nat : n < 128}

\* UTF-8: a byte below 128 is a character of its own, and the first byte of
\* the full-width signs, 239, is that of a character of three.
ASSUME CommandsAssumption ==
    /\ \A ch \in Characters : /\ ch \in Seq(Byte) /\ Len(ch) > 0
                              /\ Len(ch) > 1 => \A i \in 1..Len(ch) : ch[i] >= 128
                              /\ ch[1] = 239 => Len(ch) = 3
    /\ command \in Seq(ASCII)
    /\ MaxLength \in Nat
    /\ NoCommand \notin Seq(Byte)

VARIABLES typed,        \* characters
          raw_message,  \* their bytes
          ends          \* history: where each of them ends

commandVars == <<typed, raw_message, ends>>

CommandInit == typed = <<>> /\ raw_message = <<>> /\ ends = <<>>

Type == /\ Len(typed) < MaxLength
        /\ \E ch \in Characters :
               /\ typed' = Append(typed, ch)
               /\ raw_message' = raw_message \o ch
               /\ ends' = Append(ends, Len(raw_message) + Len(ch))

CommandSpec == CommandInit /\ [][Type]_commandVars

-----------------------------------------------------------------------------
(* What the code computes, on bytes.                                       *)

Mark      == <<33>>             \* !
WideMark  == <<239, 188, 129>>
Slash     == <<47>>
Space     == 32
Newline   == 10

\* std.mem.startsWith
StartsWith(str, prefix) == IsPrefix(prefix, str)

\* 0: no command
start_pos(str) == IF StartsWith(str, Mark) \/ StartsWith(str, Slash) THEN 1
                  ELSE IF StartsWith(str, WideMark) THEN 3 ELSE 0

splitCommandStart(str) ==
    LET remaining == SubSeq(str, start_pos(str) + 1, Len(str))
    IN  IF start_pos(str) > 0 /\ StartsWith(remaining, command)
        THEN SubSeq(remaining, Len(command) + 1, Len(remaining)) ELSE NoCommand

Faulty_check_pos(str) == IF StartsWith(str, Mark) \/ StartsWith(str, Slash) THEN 1
                         ELSE IF StartsWith(str, WideMark) THEN 1 ELSE 0

\* The same lines once more.
check_pos(str) == IF StartsWith(str, Mark) \/ StartsWith(str, Slash) THEN 1
                  ELSE IF StartsWith(str, WideMark) THEN 3 ELSE 0

checkCommandStart(str) ==
    /\ check_pos(str) > 0
    /\ StartsWith(SubSeq(str, check_pos(str) + 1, Len(str)), command)

\* std.mem.trim(u8, value, " \n")
trim(bytes) ==
    LET kept == {i \in DOMAIN bytes : bytes[i] \notin {Space, Newline}}
    IN  IF kept = {} THEN <<>>
        ELSE SubSeq(bytes, CHOOSE i \in kept : \A k \in kept : i <= k,
                           CHOOSE i \in kept : \A k \in kept : k <= i)

-----------------------------------------------------------------------------
(* What a user means, in characters.                                       *)

Marks == {Mark, WideMark, Slash}
Blank == {<<Space>>, <<Newline>>}

IsCommand == /\ Len(typed) > Len(command)
             /\ typed[1] \in Marks
             /\ \A i \in 1..Len(command) : typed[i + 1] = <<command[i]>>

EndOf(i) == IF i = 0 THEN 0 ELSE ends[i]

\* The bytes of the characters after the first a, up to the b-th.
BytesOf(a, b) == SubSeq(raw_message, EndOf(a) + 1, EndOf(b))

(* A message is a command for the code exactly when it is one for a user,  *)
(* and for both functions, one a copy of the other.  The argument is what  *)
(* follows, whole characters of it (no byte of the mark is taken for that  *)
(* of another sign), and the city the argument without blanks around it.   *)
CommandAsMeant ==
    LET value == splitCommandStart(raw_message)
        start == Len(command) + 1
        end   == Len(typed)
    IN  /\ value # NoCommand <=> IsCommand
        /\ checkCommandStart(raw_message) <=> IsCommand
        /\ IsCommand =>
               /\ value = BytesOf(start, end)
               /\ \E a \in start..end : \E b \in a..end :
                      /\ \A i \in (start + 1..a) \cup (b + 1..end) : typed[i] \in Blank
                      /\ a < b => typed[a + 1] \notin Blank /\ typed[b] \notin Blank
                      /\ trim(value) = BytesOf(a, b)

=============================================================================
