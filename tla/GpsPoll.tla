------------------------------- MODULE GpsPoll -------------------------------
(***************************************************************************)
(* One call of gps_get_position(): gpsd's answers come as a stream of      *)
(* bytes, in pieces of any size, into a buffer of Cap bytes, and are taken *)
(* apart into lines.  A byte is its place in the stream, from 1: the class *)
(* of a report stands in its first byte and the newline in its last.       *)
(***************************************************************************)
EXTENDS Integers, Sequences, SequencesExt

CONSTANTS
    Cap,         \* sizeof(recv_buffer)
    Lengths,     \* the lengths of a line, its newline included
    MaxReports   \* bound: the lines gpsd sends

VARIABLES
    pc, status, outLen,  \* where the call is, its result, *output_len
    stream,    \* the lines gpsd sent: what each is and its last byte
    taken,     \* the number of bytes received
    buffer,    \* recv_buffer[0 .. used)
    position,  \* the line that the mode in output_data is from, 0: none
    sawPoll    \* saw_poll

gpsVars == <<stream, taken, buffer, position, sawPoll>>

(* A POLL report holds the last TPV reports, and strstr() finds them. *)
Kinds     == {"tpv", "poll", "poll with tpv", "other"}
TpvKinds  == {"tpv", "poll with tpv"}
PollKinds == {"poll", "poll with tpv"}

(* The last byte of line k, and of all: 0 before there is one. *)
EndOf(k) == IF k = 0 THEN 0 ELSE stream[k].end
Sent     == EndOf(Len(stream))

GpsTypeOK ==
    /\ stream \in Seq([kind : Kinds, end : Nat]) /\ Len(stream) <= MaxReports
    /\ \A k \in DOMAIN stream : stream[k].end - EndOf(k - 1) \in Lengths
    /\ taken \in 0 .. Sent
    /\ buffer \in Seq(1 .. taken) /\ Len(buffer) < Cap
    /\ position \in 0 .. Len(stream)
    /\ sawPoll \in BOOLEAN

GpsInit == stream = <<>> /\ taken = 0 /\ buffer = <<>> /\ position = 0 /\ sawPoll = FALSE
-----------------------------------------------------------------------------
(* The newlines in a buffer, the line that one of them ends, and its text. *)
IsNewline(b)   == \E k \in DOMAIN stream : stream[k].end = b
LineOf(b)      == CHOOSE k \in DOMAIN stream : stream[k].end = b
Newlines(buf)  == {i \in DOMAIN buf : IsNewline(buf[i])}
LineAt(buf, i) ==
    SubSeq(buf, Max({0} \cup {j \in Newlines(buf) : j < i}) + 1, i)

(* strstr(line, "\"class\":...") finds one of these classes. *)
Shows(line, kinds) ==
    \E k \in DOMAIN stream : EndOf(k - 1) + 1 \in ToSet(line) /\ stream[k].kind \in kinds
Matches(buf, kinds) == {i \in Newlines(buf) : Shows(LineAt(buf, i), kinds)}
Rest(buf) == SubSeq(buf, Max({0} \cup Newlines(buf)) + 1, Len(buf))

(* What recv_buffer holds once recv() returned n bytes: at most what is    *)
(* left of it, less one for the terminating zero.                          *)
Room      == Cap - Len(buffer) - 1
Filled(n) == buffer \o [i \in 1 .. n |-> taken + i]
CanReceive(n) == pc = "recv" /\ n \in 1 .. Room /\ taken + n <= Sent
-----------------------------------------------------------------------------
(* socket(), connect() or send() fails; a refused connection means that    *)
(* there is no gpsd.                                                       *)
ConnectFails ==
    /\ pc = "start"
    /\ pc' = "done" /\ status' \in {"error", "not_supported"}
    /\ UNCHANGED <<outLen, gpsVars>>

Watch ==
    /\ pc = "start"
    /\ pc' = "recv"
    /\ UNCHANGED <<status, outLen, gpsVars>>

(* gpsd sends one more line. *)
GpsdSends ==
    /\ pc = "recv" /\ Len(stream) < MaxReports
    /\ \E kind \in Kinds, length \in Lengths :
          stream' = Append(stream, [kind |-> kind, end |-> Sent + length])
    /\ UNCHANGED <<pc, status, outLen, taken, buffer, position, sawPoll>>

(* A line received is a TPV report: the first one is the answer. *)
ReceiveTpv(n) ==
    /\ CanReceive(n)
    /\ LET found == Matches(Filled(n), TpvKinds)
       IN  found # {} /\ position' = LineOf(Filled(n)[Min(found)])
    /\ taken' = taken + n
    /\ pc' = "done" /\ status' = "success" /\ outLen' = 1
    /\ UNCHANGED <<stream, buffer, sawPoll>>

(* The polls among the lines received, none of which is a TPV report. *)
NotePolls(n) ==
    LET polls == Matches(Filled(n), PollKinds)
    IN  /\ Matches(Filled(n), TpvKinds) = {}
        /\ sawPoll' = (sawPoll \/ polls # {})
        /\ position' = IF polls = {} THEN position ELSE LineOf(Filled(n)[Max(polls)])

(* Mutant: what follows the last newline is not kept. *)
ReceiveOtherForgetting(n) ==
    /\ CanReceive(n) /\ NotePolls(n)
    /\ taken' = taken + n /\ buffer' = <<>>
    /\ UNCHANGED <<pc, status, outLen, stream>>

(* No TPV report yet: the rest of the buffer is moved to its front. *)
ReceiveOther(n) ==
    /\ CanReceive(n) /\ NotePolls(n)
    /\ taken' = taken + n /\ buffer' = Rest(Filled(n))
    /\ UNCHANGED <<pc, status, outLen, stream>>

(* recv() times out, fails or finds the connection closed, or a line fills *)
(* the buffer.  The length is 1 even with an error.                        *)
StopReceiving ==
    /\ pc = "recv"
    /\ pc' = "done" /\ outLen' = 1
    /\ status' = IF sawPoll THEN "success" ELSE "error"
    /\ UNCHANGED gpsVars

GpsNext == \/ ConnectFails \/ Watch \/ GpsdSends \/ StopReceiving
           \/ \E n \in 1 .. Cap : ReceiveTpv(n) \/ ReceiveOther(n)
-----------------------------------------------------------------------------
(* The lines of which every byte was received. *)
Complete == {k \in DOMAIN stream : stream[k].end <= taken}
Answers(kinds) == {k \in Complete : stream[k].kind \in kinds}

(* The answer depends on what was received and not on how it was cut into  *)
(* pieces: the first TPV report, else the last POLL report, else an error. *)
(* No complete report is missed, counted twice or pieced together.         *)
Answered ==
    pc = "done" /\ outLen = 1 =>
        IF Answers(TpvKinds) # {} THEN status = "success" /\ position = Min(Answers(TpvKinds))
        ELSE IF Answers(PollKinds) # {} THEN status = "success" /\ position = Max(Answers(PollKinds))
        ELSE status = "error" /\ position = 0
=============================================================================
