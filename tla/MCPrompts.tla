------------------------------ MODULE MCPrompts ------------------------------
(* Instances of Prompts for TLC. *)
EXTENDS Prompts

Case == <<"case">>
Lang == <<"lang">>

Word     == <<"word">>
Blanks   == <<" ", " ">>
AskCase  == <<"word", "{{", " ", "case", "}}">>
AskBoth  == <<"{{", "case", "}}", " ", "{{", "lang", " ", "}}", "{{", "lang", "}}">>
AskLang  == <<"{{", "lang", "}}">>
Unclosed == <<"}}", "{{", "case">>
Nested   == <<"{{", "word", "{{", "case", "}}", "}}">>

SomeTokens == {"{{", "}}", " ", "word", "case", "lang"}

Text(content) == [chat |-> None, text |-> content]
Chat(items) == [chat |-> items, text |-> None]

SomeRaws ==
    {Text(c) : c \in {AskCase, AskBoth, AskLang, Blanks, Unclosed, Nested}}
    \cup {Chat(<<Message("system", AskLang), Message("user", AskCase)>>),
          Chat(<<Message("user", AskCase)>>),
          Chat(<<Message("system", Word), Message("user", None)>>),
          Chat(<<Message("system", Word), Message("assistant", Word)>>),
          Chat(<<>>)}

BothProviders == {"langfuse", "file"}
TwoLabels == {"production", "staging"}

NoValues == [n \in {} |-> None]
Value(name, value) == [n \in {name} |-> value]
Both(case, lang) == [n \in {Case, Lang} |-> IF n = Case THEN case ELSE lang]

ManyRequests ==
    {NoValues, Value(Case, Word), Value(Case, AskLang), Value(Lang, None),
     Value(Lang, Blanks), Both(AskLang, Word), Both(Word, AskCase), Both(None, AskBoth)}

SomeDrafts ==
    {Ref("label", NoValues, "production"), Ref("label", Value(Lang, AskCase), "production"),
     Ref("label", Value(Lang, AskCase), "staging"), Ref("version", NoValues, 1),
     Ref("snapshot", Value(Lang, Word), AskBoth),
     Ref("snapshot_messages", Value(Lang, Word),
         <<Message("system", AskLang), Message("user", AskCase)>>)}

=============================================================================
