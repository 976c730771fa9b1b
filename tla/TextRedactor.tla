---------------------------- MODULE TextRedactor ----------------------------
(***************************************************************************)
(* TextStreamRedactor: the incremental scanner that model text goes        *)
(* through, chunk by chunk, before it is shown, so that a credential that  *)
(* is split across chunks is replaced as one that is not                   *)
(* (internal/events/text_stream_redactor*.go).                             *)
(*                                                                         *)
(* A symbol stands for a run of characters: "B" for bearer, "A" and "W"    *)
(* for the name of an assignment (W: authorization), "T1" "T2" for the     *)
(* prefix of a known token, "P" "K" and "E" "K" for the lines around a     *)
(* private key, "c" "d" "e" for a configured value, "v" for other text,    *)
(* "_" for space, "n" for a new line, "q" for a quote, "b" for a backslash.*)
(* A text uses the symbols of one alphabet.  An iteration of the loop of   *)
(* process is a step; what is pending is the text after position lo.       *)
(***************************************************************************)
EXTENDS Integers, Sequences, FiniteSets

CONSTANTS Alphabets, \* sets of symbols
          MaxText,   \* bound: symbols of a text
          MaxPending \* maxTextStreamPendingBytes

VARIABLES alphabet, text, lo, mode, busy, escaped, matched, shown,
          misread    \* history: a value was scanned with what belongs to another
           \* (a backslash of a quoted value counted again, a wide value taken for a narrow one)

textVars == <<alphabet, text, lo, mode, busy, escaped, matched, shown, misread>>

Configured == <<"c", "d", "e">>

TextInit ==
  /\ alphabet \in Alphabets /\ text = <<>> /\ lo = 0 /\ mode = "normal" /\ busy = "idle"
  /\ escaped = FALSE /\ matched = 0 /\ shown = {} /\ misread = FALSE

Hi == Len(text)
Least(s) == CHOOSE i \in s : \A j \in s : i <= j
Spaces == {"_", "n"}
Delimiters(wide) == IF wide THEN {"n", ","} ELSE {"_", "n", ","}
Symbols == UNION Alphabets
BearerBytes == Symbols \ {"_", "n", "q", "b", ","}
TokenBytes == Symbols \ {"_", "n", "q", "b", ",", "="}
WordBytes == Symbols \ {"_", "n", "q", "b", ",", "="}

\* consumeWhile, from position i on: the first position that is not accepted.
FirstNot(i, accepted) == Least({j \in i..(Hi + 1) : j = Hi + 1 \/ text[j] \notin accepted})
AfterSpaces(i) == FirstNot(i, Spaces)

\* A word starts at i, as far as a scan that begins after position from can tell.
Boundary(i, from) == i = from + 1 \/ text[i - 1] \notin WordBytes

NoStart == [end |-> 0, mode |-> "normal"]

\* nextCandidate: what starts at i.
StartAt(i, from) ==
  LET s == text[i]
      sign == AfterSpaces(i + 1)
      key == FirstNot(i + 1, {"v"})
  IN  CASE s = "c" /\ i + 2 <= Hi /\ SubSeq(text, i, i + 2) = Configured ->
             [end |-> i + 2, mode |-> "configured"]
        [] s \in {"A", "W"} /\ sign <= Hi /\ text[sign] = "=" ->
             [end |-> AfterSpaces(sign + 1) - 1, mode |-> IF s = "W" THEN "await wide" ELSE "await"]
        [] s = "B" /\ Boundary(i, from) /\ sign > i + 1 ->
             [end |-> sign - 1, mode |-> "await bearer"]
        [] s = "T1" /\ Boundary(i, from) /\ i < Hi /\ text[i + 1] = "T2" ->
             [end |-> i + 1, mode |-> "token"]
        [] s = "P" /\ key <= Hi /\ text[key] = "K" -> [end |-> key, mode |-> "key"]
        [] OTHER -> NoStart

Shows(start) == start.mode \in {"await", "await wide", "await bearer"}

\* pendingHold: the longest end of the text that may still become a start.
Pendable == {i \in (lo + 1)..Hi :
           \/ i = Hi /\ text[i] \in {"A", "W", "B", "T1", "P"}
           \/ text[i] \in {"A", "W"} /\ AfterSpaces(i + 1) > Hi
           \/ text[i] = "P" /\ \A j \in (i + 1)..Hi : text[j] = "v"
           \/ text[i] = "c" /\ Hi < i + 2 /\ SubSeq(text, i, Hi) = SubSeq(Configured, 1, Hi - i + 1)}

\* Mutant: only a start that is already whole is kept for the next chunk.
HoldNothing == 0

Hold == IF Pendable = {} THEN 0 ELSE Hi - Least(Pendable) + 1

HoldMode == CASE text[Hi - Hold + 1] \in {"A", "W"} /\ Hold > 1 -> "prefix"
              [] text[Hi - Hold + 1] = "P" /\ Hold > 1 -> "key"
              [] text[Hi - Hold + 1] = "c" -> "configured"
              [] OTHER -> "normal"

----------------------------------------------------------------------------

\* A chunk arrives, a symbol at a time.
Receive(s) ==
  /\ busy \in {"idle", "pushing"} /\ Hi < MaxText
  /\ text' = Append(text, s) /\ busy' = "pushing"
  /\ UNCHANGED <<alphabet, lo, mode, escaped, matched, shown, misread>>

Push ==
  /\ busy = "pushing" /\ busy' = "processing"
  /\ misread' = (misread \/ (mode = "quoted" /\ escaped))
  /\ UNCHANGED <<alphabet, text, lo, mode, escaped, matched, shown>>

Flush ==
  /\ busy = "idle" /\ busy' = "flushing"
  /\ misread' = (misread \/ (mode = "quoted" /\ escaped))
  /\ UNCHANGED <<alphabet, text, lo, mode, escaped, matched, shown>>

Working == busy \in {"processing", "flushing"}
Final == busy = "flushing"

\* process goes on with the next mode, or returns with what is left pending.
Next(m) == mode' = m /\ UNCHANGED busy
Return(m) == mode' = m /\ busy' = IF Final THEN "done" ELSE "idle"
Drop(i) == lo' = i - 1
Quiet == UNCHANGED <<alphabet, text, misread>>

ScanNormal ==
  /\ Working /\ mode = "normal" /\ UNCHANGED <<alphabet, text, escaped>>
  /\ LET starts == {i \in (lo + 1)..Hi : StartAt(i, lo) # NoStart}
         i == Least(starts)
         start == StartAt(i, lo)
     IN  \/ /\ starts # {}
            /\ shown' = shown \cup ((lo + 1)..(IF Shows(start) THEN start.end ELSE i - 1))
            /\ lo' = start.end /\ Next(start.mode)
            /\ matched' = Len(Configured) /\ UNCHANGED misread
         \/ /\ starts = {} /\ Final
            /\ shown' = shown \cup ((lo + 1)..Hi) /\ lo' = Hi
            /\ Return("normal") /\ UNCHANGED <<matched, misread>>
         \/ /\ starts = {} /\ ~Final /\ Hold > MaxPending
            /\ shown' = shown \cup ((lo + 1)..(Hi - Hold)) /\ lo' = Hi
            /\ Next(HoldMode) /\ matched' = Hold
            /\ misread' = (misread \/ text[Hi - Hold + 1] = "W")
         \/ /\ starts = {} /\ ~Final /\ Hold <= MaxPending
            /\ shown' = shown \cup ((lo + 1)..(Hi - Hold)) /\ lo' = Hi - Hold
            /\ Return("normal") /\ UNCHANGED <<matched, misread>>

\* After "bearer ": spaces, then a value.
ScanBearerAwait ==
  /\ Working /\ mode = "await bearer" /\ Quiet /\ UNCHANGED <<escaped, matched>>
  /\ LET i == AfterSpaces(lo + 1)
     IN  /\ shown' = shown \cup ((lo + 1)..(i - 1)) /\ Drop(i)
         /\ IF i > Hi THEN Return(mode)
            ELSE Next(IF text[i] \in BearerBytes THEN "bearer" ELSE "normal")

\* Mutant: a value that reaches the end of a chunk ends there.
ReturnNormal(m) == Return("normal")

\* A value that reaches the end of what is pending goes on in the next chunk.
GoOn(m) == Return(m)

ScanValue(m, accepted) ==
  /\ Working /\ mode = m /\ Quiet /\ UNCHANGED <<shown, escaped, matched>>
  /\ LET i == FirstNot(lo + 1, accepted)
     IN  Drop(i) /\ (IF i > Hi THEN GoOn(m) ELSE Next("normal"))

\* The name of an assignment was replaced for its length: where is its sign?
ScanPrefix ==
  /\ Working /\ mode = "prefix" /\ Quiet /\ UNCHANGED <<shown, escaped, matched>>
  /\ LET i == FirstNot(lo + 1, Spaces \cup {"q"})
     IN  IF i > Hi THEN Drop(i) /\ Return(mode)
         ELSE IF text[i] = "=" THEN lo' = i /\ Next("await") ELSE Drop(i) /\ Next("normal")

ScanAwait(m) ==
  /\ Working /\ mode = m /\ Quiet /\ UNCHANGED <<escaped, matched>>
  /\ LET i == AfterSpaces(lo + 1)
     IN  /\ shown' = shown \cup ((lo + 1)..(i - 1))
         /\ IF i > Hi THEN Drop(i) /\ Return(m)
            ELSE IF text[i] = "q" THEN lo' = i /\ Next("quoted")
            ELSE /\ Drop(i)
                 /\ Next(IF text[i] = "," THEN "normal"
                         ELSE IF m = "await" THEN "unquoted" ELSE "wide")

\* quotedValueEnd: a quote that no backslash precedes, or the end of the line.
EndsQuote(i, esc) ==
  /\ text[i] = "n" \/ text[i] = "q"
  /\ ~(IF i = lo + 1 THEN esc
       ELSE \E k \in lo..(i - 1) :
              /\ k = lo \/ text[k] # "b"
              /\ \A j \in (k + 1)..(i - 1) : text[j] = "b"
              /\ LET n == i - 1 - k + (IF k = lo /\ esc THEN 1 ELSE 0) IN n % 2 = 1)

EscapedAtEnd ==
  \E k \in lo..Hi : /\ k = lo \/ text[k] # "b"
                    /\ \A j \in (k + 1)..Hi : text[j] = "b"
                    /\ (Hi - k + (IF k = lo /\ escaped THEN 1 ELSE 0)) % 2 = 1

ScanQuoted ==
  /\ Working /\ mode = "quoted" /\ Quiet /\ UNCHANGED <<shown, matched>>
  /\ LET ends == {i \in (lo + 1)..Hi : EndsQuote(i, escaped)}
         i == Least(ends)
     IN  IF ends # {}
         THEN lo' = (IF text[i] = "q" THEN i ELSE i - 1) /\ Next("normal") /\ escaped' = FALSE
         ELSE /\ lo' = IF Final \/ Hi - lo > MaxPending THEN Hi ELSE lo
              /\ escaped' = EscapedAtEnd
              /\ Return(mode)

ScanKey ==
  /\ Working /\ mode = "key" /\ UNCHANGED <<alphabet, text, shown, escaped, matched, misread>>
  /\ LET Ends(i) == text[i] = "E" /\ \E j \in (i + 1)..Hi :
                      text[j] = "K" /\ \A k \in (i + 1)..(j - 1) : text[k] = "v"
         ends == {i \in (lo + 1)..Hi : Ends(i)}
     IN  IF ends # {}
         THEN /\ lo' = FirstNot(Least(ends) + 1, {"v"})
              /\ Next("normal")
         ELSE /\ lo' = IF Final THEN Hi ELSE IF Hi - lo > MaxPending THEN Hi - MaxPending ELSE lo
              /\ Return(mode)

ScanConfigured ==
  /\ Working /\ mode = "configured" /\ Quiet /\ UNCHANGED <<shown, escaped>>
  /\ LET same == {i \in (lo + 1)..Hi :
                    /\ matched + i - lo <= Len(Configured)
                    /\ SubSeq(text, lo + 1, i) = SubSeq(Configured, matched + 1, matched + i - lo)}
         n == Cardinality(same)
     IN  IF matched >= Len(Configured) THEN Next("normal") /\ UNCHANGED <<lo, matched>>
         ELSE /\ matched' = matched + n /\ lo' = lo + n
              /\ IF lo + n < Hi \/ matched + n = Len(Configured) THEN Next("normal")
                 ELSE Return(mode)

Process ==
  \/ ScanNormal \/ ScanBearerAwait \/ ScanPrefix \/ ScanQuoted \/ ScanKey \/ ScanConfigured
  \/ ScanAwait("await") \/ ScanAwait("await wide")
  \/ ScanValue("bearer", BearerBytes) \/ ScanValue("token", TokenBytes)
  \/ ScanValue("unquoted", Symbols \ Delimiters(FALSE))
  \/ ScanValue("wide", Symbols \ Delimiters(TRUE))

TextStep == (\E s \in alphabet : Receive(s)) \/ Push \/ Flush \/ Process

TextSpec == TextInit /\ [][TextStep]_textVars

----------------------------------------------------------------------------
(***************************************************************************)
(* What the text would hide in one piece: a lexer over its symbols, where  *)
(* Lex[i] is the mode after i symbols and until where it is fixed.         *)
(***************************************************************************)
After(m, i) ==
  LET s == text[i]
      start == StartAt(i, 0)
      fresh == IF start = NoStart THEN [mode |-> "normal", till |-> i, hide |-> FALSE]
               ELSE [mode |-> IF start.mode = "configured" THEN "normal" ELSE start.mode,
                     till |-> start.end, hide |-> ~Shows(start)]
      In(value) == [mode |-> value, till |-> i, hide |-> TRUE]
  IN  CASE m = "bearer" /\ s \in BearerBytes -> In("bearer")
        [] m = "token" /\ s \in TokenBytes -> In("token")
        [] m = "unquoted" /\ s \notin Delimiters(FALSE) -> In("unquoted")
        [] m = "wide" /\ s \notin Delimiters(TRUE) -> In("wide")
        [] m = "await bearer" /\ s \in BearerBytes -> In("bearer")
        [] m \in {"await", "await wide"} /\ s = "q" -> In("quoted")
        [] m = "await" /\ s # "," -> In("unquoted")
        [] m = "await wide" /\ s # "," -> In("wide")
        [] m = "quoted" /\ s = "b" -> [In("quoted") EXCEPT !.till = i + 1]
        [] m = "quoted" /\ s = "q" -> In("normal")
        [] m = "quoted" /\ s # "n" -> In("quoted")
        [] m = "key" /\ s = "E" /\ FirstNot(i + 1, {"v"}) <= Hi
             /\ text[FirstNot(i + 1, {"v"})] = "K" ->
             [In("normal") EXCEPT !.till = FirstNot(i + 1, {"v"})]
        [] m = "key" -> In("key")
        [] OTHER -> fresh

Hidden ==
  LET Lex[i \in 0..Hi] ==
        IF i = 0 THEN [mode |-> "normal", till |-> 0, hide |-> FALSE]
        ELSE IF Lex[i - 1].till >= i THEN Lex[i - 1]
        ELSE After(Lex[i - 1].mode, i)
  IN  {i \in 1..Hi : Lex[i].hide}

TextTypeOK ==
  /\ alphabet \in Alphabets /\ text \in Seq(alphabet) /\ Len(text) <= MaxText
  /\ lo \in 0..Hi /\ shown \subseteq 1..Hi /\ busy \in {"idle", "pushing", "processing", "flushing", "done"}

\* Nothing that is hidden in a text in one piece is shown when it comes in chunks, wherever they
\* are cut (text_stream_redactor.go:44-47).
CutsShowNothing == misread \/ shown \cap Hidden = {}
=============================================================================
