----------------------------- MODULE InputLine ------------------------------
(***************************************************************************)
(* The line the user edits: Console::buffer and Console::buff_position,    *)
(* as the hook of the input thread changes them.  The buffer is what is in *)
(* front of its first NUL: nothing behind it is ever read again, for every *)
(* write ends with a NUL and starts at or in front of that one.            *)
(*                                                                         *)
(* A read gives one key, or the keys that were there at once; the hook     *)
(* looks at the first.                                                     *)
(***************************************************************************)
EXTENDS Integers, Sequences

CONSTANTS Char,   (* the displayable characters told apart                    *)
          Size,   (* SocketMaxMessageSize()                                   *)
          Chunk   (* how many keys a read gives, at most; 16 in the code      *)

ASSUME LineAssumption == Size \in Nat \ {0} /\ Chunk \in Nat \ {0}

Backspace == "backspace"
Enter == "enter"

VARIABLES
    buffer,     (* the characters before the NUL                              *)
    position    (* buff_position                                              *)

line == <<buffer, position>>

LineTypeOK == buffer \in Seq(Char) /\ Len(buffer) < Size /\ position \in 0..Len(buffer)

(* Several keys at once are characters; what follows a backspace or a new  *)
(* line in the same read is not looked at.                                 *)
Keys ==
    {<<Backspace>>, <<Enter>>} \cup UNION {[1..n -> Char] : n \in 1..Chunk}

EmptyLine == buffer = <<>> /\ position = 0

(* Fault: does not look whether there is a character to erase. *)
Erase_Always ==
    /\ position' = position - 1
    /\ buffer' = SubSeq(buffer, 1, position - 1)

Erase ==
    IF position > 0
    THEN /\ position' = position - 1
         /\ buffer' = SubSeq(buffer, 1, position - 1)
    ELSE UNCHANGED line

(* strcpy of the whole read; the position moves by one.  Past the end of   *)
(* the buffer the C++ is undefined, and the model stops.                   *)
Insert(keys) ==
    /\ position + Len(keys) < Size
    /\ buffer' = SubSeq(buffer, 1, position) \o keys
    /\ position' = position + 1

(* A new line hands the buffer over and clears it. *)
ClearLine == buffer' = <<>> /\ position' = 0

-----------------------------------------------------------------------------
(* "Copy temp buffer to the end of console buffer" (Console.cpp:493): the  *)
(* next character goes behind the last.  It does if "only one char is ever *)
(* captured" (517); with Chunk = 2 the next key overwrites the second of   *)
(* two characters that are read at once.                                   *)
CursorAtEnd == position = Len(buffer)
=============================================================================
