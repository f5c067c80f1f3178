----------------------------- MODULE PhoneShell -----------------------------
(***************************************************************************)
(* What the helper's words become on the phone.  AdbInputAdapter           *)
(* (helper/src/input.rs) and AdbActionAdapter (helper/src/actions.rs) hand *)
(* adb a list of arguments; adb joins them with spaces and a shell on the  *)
(* phone takes the line apart again, so an argument that is not one word   *)
(* of that shell is another command.  `input text` then reads "%s" as a    *)
(* space: the adapter writes spaces that way and cuts a text that contains *)
(* the two characters itself, so that one text is several adb commands, of *)
(* which a later one may fail.                                             *)
(*                                                                         *)
(* Texts are sequences of characters; Texts, Packages and Activities are   *)
(* the inputs a run asks about.  The shell, `input`, `am` and `monkey` are *)
(* the phone's, and external.                                              *)
(***************************************************************************)
EXTENDS Naturals, Sequences, SequencesExt

CONSTANTS Texts, Packages, Activities, Letters, Digits, ShellMeta

ASSUME PhoneShellAssumption ==
  \A k \in {Texts, Packages, Activities} : \A t \in k : t \in Seq(STRING)

(* request.asked is what the phone is to get, piece by piece: the           *)
(* characters of a text, or the one thing to open.                          *)
VARIABLES
  request,    \* [kind, argument, asked]
  remainder,  \* of a text: what no command has been run for
  arrived,    \* what `input`, `am` or `monkey` was given on the phone
  answer      \* of the adapter; "None" while it runs

shellVars == <<request, remainder, arrived, answer>>

Idle == [kind |-> "none", argument |-> <<>>, asked |-> <<>>]

ShellInit == request = Idle /\ remainder = <<>> /\ arrived = <<>> /\ answer = "None"

Each(Op(_), s) == FlattenSeq([i \in DOMAIN s |-> Op(s[i])])

-----------------------------------------------------------------------------
(* The phone.  A shell word is closed by a space outside quotes; a          *)
(* metacharacter outside quotes ends the command, and with it the words     *)
(* the program gets.                                                        *)

Closed(p) ==
  IF p.open THEN [p EXCEPT !.words = Append(@, p.word), !.word = <<>>, !.open = FALSE] ELSE p
Extended(p, c, mode) == [p EXCEPT !.word = Append(@, c), !.open = TRUE, !.mode = mode]
Shell(p, c) ==
  CASE p.mode = "ended" -> p
    [] p.mode = "escaped" -> Extended(p, c, "plain")
    [] p.mode = "quoted" /\ c = "'" -> [p EXCEPT !.mode = "plain"]
    [] p.mode = "quoted" /\ c # "'" -> Extended(p, c, "quoted")
    [] p.mode = "plain" /\ c = "'" -> [p EXCEPT !.mode = "quoted", !.open = TRUE]
    [] p.mode = "plain" /\ c = "\\" -> [p EXCEPT !.mode = "escaped", !.open = TRUE]
    [] p.mode = "plain" /\ c = " " -> Closed(p)
    [] p.mode = "plain" /\ c \in ShellMeta -> [Closed(p) EXCEPT !.mode = "ended"]
    [] OTHER -> Extended(p, c, "plain")
(* A line that ends inside a quote or after a backslash runs nothing.       *)
Words(line) ==
  LET p == FoldLeft(Shell, [mode |-> "plain", word |-> <<>>, open |-> FALSE, words |-> <<>>], line)
  IN  IF p.mode \in {"plain", "ended"} THEN Closed(p).words ELSE <<>>

(* `input text` types the characters of its first word, "%s" as a space.    *)
Percent(p, c) ==
  IF p.percent /\ c = "s"
  THEN [typed |-> Append(Front(p.typed), " "), percent |-> FALSE]
  ELSE [typed |-> Append(p.typed, c), percent |-> c = "%"]
Typed(word) == FoldLeft(Percent, [typed |-> <<>>, percent |-> FALSE], word).typed

(* `am start -n` and `monkey -p` open what their first word names.          *)
Opened(words) == IF words = <<>> THEN <<>> ELSE <<words[1]>>
Given(kind, line) ==
  IF kind = "text"
  THEN IF Words(line) = <<>> THEN <<>> ELSE Typed(Words(line)[1])
  ELSE Opened(Words(line))

-----------------------------------------------------------------------------
(* The helper's side.                                                       *)

EscapedQuote == <<"'", "\\", "'", "'">>
QuoteCharacter(c) == IF c = "'" THEN EscapedQuote ELSE <<c>>
posix_shell_quote(value) == <<"'">> \o Each(QuoteCharacter, value) \o <<"'">>

EncodeCharacter(c) == IF c = " " THEN <<"%", "s">> ELSE <<c>>
TextArgument(text) == posix_shell_quote(Each(EncodeCharacter, text))

FragmentLengthWhole(text) == Len(text)
(* remainder.find("%s"): the fragment goes as far as the percent sign.      *)
Marks(text) == {i \in 1..(Len(text) - 1) : text[i] = "%" /\ text[i + 1] = "s"}
FragmentLength(text) ==
  IF Marks(text) = {} THEN Len(text) ELSE CHOOSE i \in Marks(text) : \A j \in Marks(text) : i <= j
(* Each part between dots, of at least two, begins with a letter.           *)
PartStarts(package) == {1} \cup {i + 1 : i \in {j \in DOMAIN package : package[j] = "."}}
valid_android_package(package) ==
  /\ \E i \in DOMAIN package : package[i] = "."
  /\ \A i \in PartStarts(package) : i \in DOMAIN package /\ package[i] \in Letters
  /\ \A i \in DOMAIN package : package[i] \in Letters \cup Digits \cup {"_", "."}

Component(package, activity) == package \o <<"/">> \o activity

(* What adb's line carries after its fixed words.                           *)
Line ==
  CASE request.kind = "text" ->
         TextArgument(SubSeq(remainder, 1, FragmentLength(remainder)))
    [] request.kind = "component" -> posix_shell_quote(request.argument)
    [] request.kind = "app" -> request.argument

-----------------------------------------------------------------------------
(* A request that reached the adapter: validate_text has refused an empty   *)
(* text, and the adapter itself refuses a package that is none.             *)

Ask(kind, argument, asked) ==
  /\ request = Idle
  /\ request' = [kind |-> kind, argument |-> argument, asked |-> asked]
  /\ remainder' = argument /\ UNCHANGED <<arrived, answer>>
AskText == \E t \in Texts : t # <<>> /\ Ask("text", t, t)
AskComponent ==
  \E p \in Packages, a \in Activities :
    Ask("component", Component(p, a), <<Component(p, a)>>)
AskApp == \E p \in Packages : Ask("app", p, <<p>>)

Answer(a) == answer' = a /\ UNCHANGED <<request, remainder>>

RefuseApp ==
  /\ request.kind = "app" /\ answer = "None" /\ ~valid_android_package(request.argument)
  /\ Answer("Refused") /\ UNCHANGED arrived

MayRun ==
  /\ request # Idle /\ answer = "None" /\ remainder # <<>>
  /\ request.kind = "app" => valid_android_package(request.argument)

(* adb says that it did what it was told; a text goes on with what is left. *)
Succeeds ==
  /\ MayRun
  /\ arrived' = arrived \o Given(request.kind, Line)
  /\ LET n == IF request.kind = "text" THEN FragmentLength(remainder) ELSE Len(remainder)
     IN  /\ remainder' = SubSeq(remainder, n + 1, Len(remainder))
         /\ answer' = IF n = Len(remainder) THEN "Ok" ELSE "None"
  /\ UNCHANGED request

(* adb fails, or its token is cancelled or runs out, before the phone was   *)
(* given anything or after: nothing is tried again.                         *)
Fails ==
  /\ MayRun
  /\ \/ UNCHANGED arrived
     \/ arrived' = arrived \o Given(request.kind, Line)
  /\ \E a \in {"DependencyUnavailable", "Disconnected", "Cancelled"} : Answer(a)

ShellNext == AskText \/ AskComponent \/ AskApp \/ RefuseApp \/ Succeeds \/ Fails
ShellSpec == ShellInit /\ [][ShellNext]_shellVars

-----------------------------------------------------------------------------
(* What has been typed or opened is always a beginning of what was asked    *)
(* for, whatever characters it holds and wherever a text is cut; it is all  *)
(* of it when the adapter says Ok, and nothing when it refuses.  A text     *)
(* that fails half way leaves its first half on the phone                   *)
(* (input.rs:153-170, actions.rs:142-230).                                  *)
ReachesThePhone ==
  /\ IsPrefix(arrived, request.asked)
  /\ answer = "Ok" => arrived = request.asked
  /\ answer = "Refused" => arrived = <<>>
=============================================================================
