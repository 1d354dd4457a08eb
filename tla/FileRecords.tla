----------------------------- MODULE FileRecords -----------------------------
(***************************************************************************)
(* The text that a file is stored as: MarshalText and UnmarshalText of the *)
(* server's File (serverfile.go) and of the client's (clientfile.go).      *)
(*                                                                         *)
(* A text is what strings.Split makes of it: the sequence of what stands   *)
(* between delimiters.  A path or a prefix is a sequence too, of one       *)
(* string unless it has a delimiter in it.   Numbers and times stand for   *)
(* themselves: their own text reads back as what was written.              *)
(***************************************************************************)
EXTENDS Naturals, SequenceTheorems, TLAPS

CONSTANTS
    Strings,        \* without a delimiter, or the beginning of one at the end
    Trim,           \* [Strings -> Strings], without the space around
    Times,
    Epoch,          \* time.Unix(0, 0)
    Unwritable,     \* times with a year of more than four digits
    NoText,         \* the empty string in the place of a time
    Error, Panic    \* in the place of a text or a record

Split == Seq(Strings) \ {<< >>}

ServerFile == [fullPath : Split, mediaPrefix : Split, size : Nat,
               currentSize : Nat, creationTime : Times, modifiedTime : Times]

ClientFile == [Path : Split, MediaPrefix : Split, Size : Nat,
               ModifiedTime : Times, WatchTime : Times, TransferTime : Times]

\* Time 0 is left out.
TimeText(unless, time) == IF unless = Epoch THEN NoText ELSE time

-----------------------------------------------------------------------------
(* The server's record.                                                     *)

ServerText(f) ==
    IF {TimeText(f.creationTime, f.creationTime), f.modifiedTime} \cap Unwritable # {}
    THEN Error
    ELSE f.fullPath \o f.mediaPrefix \o
         <<f.size, f.currentSize, TimeText(f.creationTime, f.creationTime), f.modifiedTime>>

\* The two times are read in the other order than they are written.
ReadServer(text) ==
    IF Len(text) # 6 \/ text[5] = NoText \/ text[6] = NoText
    THEN Error
    ELSE [fullPath |-> <<Trim[text[1]]>>, mediaPrefix |-> <<Trim[text[2]]>>,
          size |-> text[3], currentSize |-> text[4],
          modifiedTime |-> text[5], creationTime |-> text[6]]

-----------------------------------------------------------------------------
(* The client's, which the program does not use.                            *)

\* The transfer time is written as the watch time.
ClientText(f) ==
    IF {f.ModifiedTime, TimeText(f.WatchTime, f.WatchTime),
        TimeText(f.TransferTime, f.WatchTime)} \cap Unwritable # {}
    THEN Error
    ELSE f.Path \o f.MediaPrefix \o
         <<f.Size, f.ModifiedTime, TimeText(f.WatchTime, f.WatchTime),
           TimeText(f.TransferTime, f.WatchTime)>>

\* Of six tokens the fifth is read as the modified time, and the seventh is looked for.
ReadClient(text) ==
    IF Len(text) # 6 THEN Panic
    ELSE IF text[5] = NoText THEN Error ELSE Panic

-----------------------------------------------------------------------------
(* Properties.                                                              *)

Plain(f) == Len(f.fullPath) = 1 /\ Len(f.mediaPrefix) = 1

Swapped(f) ==
    [fullPath |-> <<Trim[f.fullPath[1]]>>, mediaPrefix |-> <<Trim[f.mediaPrefix[1]]>>,
     size |-> f.size, currentSize |-> f.currentSize,
     modifiedTime |-> f.creationTime, creationTime |-> f.modifiedTime]

Tokens == Strings \cup Nat \cup Times \cup {NoText}

\* What a text of two tokens or more and four more is made of.
LEMMA Joined ==
    ASSUME NEW S, NEW p \in Seq(S), NEW m \in Seq(S), NEW t \in Seq(S)
    PROVE  /\ Len(p \o m \o t) = Len(p) + Len(m) + Len(t)
           /\ \A i \in 1..Len(t) : (p \o m \o t)[Len(p) + Len(m) + i] = t[i]
           /\ Len(p) = 1 => (p \o m \o t)[1] = p[1]
           /\ Len(p) = 1 /\ Len(m) = 1 => (p \o m \o t)[2] = m[1]
<1>1. /\ p \o m \in Seq(S)
      /\ Len(p \o m) = Len(p) + Len(m)
      /\ \A i \in 1..Len(p) + Len(m) : (p \o m)[i] = IF i <= Len(p) THEN p[i] ELSE m[i - Len(p)]
  BY ConcatProperties
<1> DEFINE head == p \o m
<1>2. /\ Len(head \o t) = Len(head) + Len(t)
      /\ \A i \in 1..Len(head) + Len(t) :
            (head \o t)[i] = IF i <= Len(head) THEN head[i] ELSE t[i - Len(head)]
  <2>1. head \in Seq(S)
    BY <1>1
  <2> HIDE DEF head
  <2> QED BY <2>1, ConcatProperties
<1>3. Len(head) = Len(p) + Len(m) /\ Len(p) \in Nat /\ Len(m) \in Nat /\ Len(t) \in Nat
  BY <1>1
<1>4. /\ Len(p) = 1 => head[1] = p[1]
      /\ Len(p) = 1 /\ Len(m) = 1 => head[2] = m[1]
  BY <1>1, <1>3
<1> HIDE DEF head
<1>5. /\ Len(head \o t) = Len(p) + Len(m) + Len(t)
      /\ \A i \in 1..Len(t) : (head \o t)[Len(p) + Len(m) + i] = t[i]
      /\ Len(p) = 1 => (head \o t)[1] = p[1]
      /\ Len(p) = 1 /\ Len(m) = 1 => (head \o t)[2] = m[1]
  BY <1>2, <1>3, <1>4
<1> QED BY <1>5 DEF head

\* The same of four tokens, one by one.
LEMMA Written ==
    \A p, m, t \in Seq(Tokens) : Len(t) = 4 =>
       /\ Len(p \o m \o t) = Len(p) + Len(m) + 4
       /\ (p \o m \o t)[Len(p) + Len(m) + 3] = t[3]
       /\ Len(p) = 1 /\ Len(m) = 1 =>
             /\ (p \o m \o t)[1] = p[1] /\ (p \o m \o t)[2] = m[1]
             /\ \A i \in 1..4 : (p \o m \o t)[i + 2] = t[i]
<1> SUFFICES ASSUME NEW p \in Seq(Tokens), NEW m \in Seq(Tokens), NEW t \in Seq(Tokens), Len(t) = 4
    PROVE  /\ Len(p \o m \o t) = Len(p) + Len(m) + 4
           /\ (p \o m \o t)[Len(p) + Len(m) + 3] = t[3]
           /\ Len(p) = 1 /\ Len(m) = 1 =>
                 /\ (p \o m \o t)[1] = p[1] /\ (p \o m \o t)[2] = m[1]
                 /\ \A i \in 1..4 : (p \o m \o t)[i + 2] = t[i]
  BY Zenon
<1> Len(p) \in Nat /\ Len(m) \in Nat
  OBVIOUS
<1>0. /\ Len(p \o m \o t) = Len(p) + Len(m) + Len(t)
      /\ \A i \in 1..Len(t) : (p \o m \o t)[Len(p) + Len(m) + i] = t[i]
  <2>1. Len(p \o m \o t) = Len(p) + Len(m) + Len(t)
    BY ONLY p \in Seq(Tokens), m \in Seq(Tokens), t \in Seq(Tokens), Joined
  <2>2. \A i \in 1..Len(t) : (p \o m \o t)[Len(p) + Len(m) + i] = t[i]
    BY ONLY p \in Seq(Tokens), m \in Seq(Tokens), t \in Seq(Tokens), Joined
  <2> QED BY <2>1, <2>2
<1>1. Len(p \o m \o t) = Len(p) + Len(m) + 4
  BY <1>0
<1>2. \A i \in 1..4 : (p \o m \o t)[Len(p) + Len(m) + i] = t[i]
  BY <1>0
<1>3. Len(p) = 1 => (p \o m \o t)[1] = p[1]
  BY Joined
<1>4. Len(p) = 1 /\ Len(m) = 1 => (p \o m \o t)[2] = m[1]
  BY Joined
<1>5. Len(p) = 1 /\ Len(m) = 1 => \A i \in 1..4 : (p \o m \o t)[i + 2] = t[i]
  <2> SUFFICES ASSUME Len(p) = 1, Len(m) = 1, NEW i \in 1..4 PROVE (p \o m \o t)[i + 2] = t[i]
    OBVIOUS
  <2>1. (p \o m \o t)[Len(p) + Len(m) + i] = t[i]
    BY <1>2, Zenon
  <2>2. Len(p) + Len(m) + i = i + 2
    OBVIOUS
  <2> QED BY <2>1, <2>2, Zenon
<1>6. 3 \in 1..4
  OBVIOUS
<1>7. (p \o m \o t)[Len(p) + Len(m) + 3] = t[3]
  BY <1>2, <1>6, Zenon
<1> QED BY <1>1, <1>3, <1>4, <1>5, <1>7, Zenon

\* A record without a creation time, which the second query of a file stores when the
\* file's own time is 0, is not read back (serverfile.go:119): the store takes it for
\* broken.
THEOREM UndatedIsUnreadable ==
    ASSUME NEW f \in ServerFile, f.creationTime = Epoch,
           {NoText, f.modifiedTime} \cap Unwritable = {}
    PROVE  ReadServer(ServerText(f)) = Error
<1>1. PICK t \in Seq(Tokens) : t = <<f.size, f.currentSize, NoText, f.modifiedTime>>
  <2>1. f.size \in Tokens /\ f.currentSize \in Tokens
        /\ NoText \in Tokens /\ f.modifiedTime \in Tokens
    BY DEF ServerFile, Tokens
  <2>2. <<f.size, f.currentSize, NoText, f.modifiedTime>> \in Seq(Tokens)
    BY <2>1
  <2> QED BY <2>2
<1>2. PICK p \in Seq(Tokens) : p = f.fullPath /\ Len(p) >= 1
  BY DEF ServerFile, Split, Tokens
<1>3. PICK m \in Seq(Tokens) : m = f.mediaPrefix /\ Len(m) >= 1
  BY DEF ServerFile, Split, Tokens
<1> DEFINE text == p \o m \o t
<1>4. ServerText(f) = text
  BY <1>1, <1>2, <1>3 DEF ServerText, TimeText
<1>5. Len(t) = 4 /\ t[3] = NoText
  BY <1>1
<1>6. Len(text) = Len(p) + Len(m) + 4 /\ text[Len(p) + Len(m) + 3] = NoText
  <2>1. Len(t) = 4
    BY <1>5
  <2>2. /\ Len(p \o m \o t) = Len(p) + Len(m) + 4
        /\ (p \o m \o t)[Len(p) + Len(m) + 3] = t[3]
    BY <2>1, Written, ZenonT(60)
  <2> QED BY <1>5, <2>2, Zenon
<1> HIDE DEF text
<1>7. Len(text) = 6 => Len(p) + Len(m) + 3 = 5
  <2>1. Len(p) \in Nat /\ Len(m) \in Nat
    OBVIOUS
  <2>2. Len(text) = 6 => Len(p) + Len(m) + 4 = 6
    BY <1>6, Zenon
  <2>3. Len(p) + Len(m) + 4 = 6 => Len(p) + Len(m) + 3 = 5
    BY <2>1
  <2> QED BY <2>2, <2>3, Zenon
<1>8. Len(text) # 6 \/ text[5] = NoText
  BY <1>6, <1>7
<1> QED BY <1>4, <1>8 DEF ReadServer

\* A record of plain paths that has its times is read back with the two exchanged
\* (serverfile.go:112-113).
THEOREM ReadsBackSwapped ==
    ASSUME NEW f \in ServerFile, Plain(f), f.creationTime # Epoch,
           {f.creationTime, f.modifiedTime} \cap Unwritable = {}, NoText \notin Times
    PROVE  ReadServer(ServerText(f)) = Swapped(f)
<1>1. PICK t \in Seq(Tokens) : t = <<f.size, f.currentSize, f.creationTime, f.modifiedTime>>
  <2>1. f.size \in Tokens /\ f.currentSize \in Tokens
        /\ f.creationTime \in Tokens /\ f.modifiedTime \in Tokens
    BY DEF ServerFile, Tokens
  <2>2. <<f.size, f.currentSize, f.creationTime, f.modifiedTime>> \in Seq(Tokens)
    BY <2>1
  <2> QED BY <2>2
<1>2. PICK p \in Seq(Tokens) : p = f.fullPath /\ Len(p) = 1
  BY DEF ServerFile, Split, Tokens, Plain
<1>3. PICK m \in Seq(Tokens) : m = f.mediaPrefix /\ Len(m) = 1
  BY DEF ServerFile, Split, Tokens, Plain
<1> DEFINE text == p \o m \o t
<1>4. ServerText(f) = text
  BY <1>1, <1>2, <1>3 DEF ServerText, TimeText
<1>5. /\ Len(t) = 4 /\ t[1] = f.size /\ t[2] = f.currentSize
      /\ t[3] = f.creationTime /\ t[4] = f.modifiedTime
      /\ f.creationTime # NoText /\ f.modifiedTime # NoText
  BY <1>1 DEF ServerFile
<1>6. /\ Len(text) = 6 /\ text[1] = p[1] /\ text[2] = m[1]
      /\ \A i \in 1..4 : text[i + 2] = t[i]
  <2>1. Len(t) = 4
    BY <1>5
  <2>2. /\ Len(p \o m \o t) = Len(p) + Len(m) + 4
        /\ Len(p) = 1 /\ Len(m) = 1 =>
              /\ (p \o m \o t)[1] = p[1] /\ (p \o m \o t)[2] = m[1]
              /\ \A i \in 1..4 : (p \o m \o t)[i + 2] = t[i]
    BY <2>1, Written, ZenonT(60)
  <2>3. Len(p) = 1 /\ Len(m) = 1
    BY <1>2, <1>3
  <2>4. Len(p) + Len(m) + 4 = 6
    BY <2>3
  <2> QED BY <2>2, <2>3, <2>4, Zenon
<1> HIDE DEF text
<1>7. text[3] = t[1] /\ text[4] = t[2] /\ text[5] = t[3] /\ text[6] = t[4]
  BY <1>6
<1>8. ReadServer(text) = Swapped(f)
  BY <1>2, <1>3, <1>5, <1>6, <1>7 DEF ReadServer, Swapped
<1> QED BY <1>4, <1>8
=============================================================================
