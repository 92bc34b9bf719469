---------------------------- MODULE Translation ----------------------------
(***************************************************************************)
(* Inbound translation: Translator and its settings (agent/translate.py),  *)
(* the cached decisions in the message rows (core/message_store.py), the   *)
(* structured call (agent/factory.py), and those who write the settings    *)
(* while a pass is under way: the settings card of the TUI, `tg lang` and  *)
(* POST /settings/lang.  The card, the web and the passes share a process, *)
(* the command is another one; every statement is an await.                *)
(*                                                                         *)
(* Messages keep their text, a translation is its language, and the cap    *)
(* on a pass and the model's structured-output method are left out.  The   *)
(* reads of resolve_skip_only are one step, and so are the upsert of a row *)
(* and the write of its decision.                                          *)
(***************************************************************************)
EXTENDS Naturals, Sequences, FiniteSets

CONSTANTS
    Langs,       \* the languages of SUPPORTED_LANG_CODES that matter
    MessageLang, \* the language each message is written in
    Wordless,    \* messages without a letter
    EnvLang,     \* TG_USER_LANG
    Models,      \* the models a user may enter
    EnvModel,    \* TG_TRANSLATE_MODEL
    Passes,      \* places a pass runs: a pane, a stream
    Lists,       \* the language lists a user may enter
    UserModes,   \* the modes a user may pick
    MaxSaves     \* bound: saves begun

Unset == "unset"
Messages == DOMAIN MessageLang

VARIABLES
    kv,       \* the settings stored
    decisions,     \* per message, the decision cached: language, text, and how it came about
    pass,     \* per place, the pass under way
    save,     \* per writer, the writes left and whether the cache is to be cleared
    card,     \* the settings card: its fields, what it last applied
    live,     \* the model of the translator in use
    saves,    \* saves begun
    torn      \* history: a save stopped between a setting and the cache

translationVars == <<kv, decisions, pass, save, card, live, saves, torn>>

NoDecision == [lang |-> Unset, text |-> Unset, by |-> "nobody", fresh |-> TRUE]
NoPass == [at |-> "idle", target |-> Unset, skip |-> {}, only |-> {},
           left |-> {}, asked |-> {}, got |-> {}, by |-> "nobody"]
NoSave == [at |-> "idle", writes |-> <<>>]
Writers == {"card", "web", "command"}

Nothing == [target |-> Unset, mode |-> Unset, known |-> {}, unknown |-> {}, model |-> Unset]
Closed == [open |-> FALSE, fields |-> Nothing, appliedMode |-> Unset, appliedModel |-> Unset,
           echo |-> FALSE]

TranslationInit ==
    /\ kv = Nothing
    /\ decisions = [m \in Messages |-> NoDecision]
    /\ pass = [p \in Passes |-> NoPass]
    /\ save = [w \in Writers |-> NoSave]
    /\ card = Closed
    /\ live = EnvModel
    /\ saves = 0
    /\ torn = FALSE

-----------------------------------------------------------------------------
(* The settings in force *)

Target == IF kv.target = Unset THEN EnvLang ELSE kv.target

Mode ==
    CASE kv.mode # Unset -> kv.mode
      [] kv.mode = Unset /\ Target # Unset -> "all_unknown"
      [] OTHER -> "off"

Model == IF kv.model = Unset THEN EnvModel ELSE kv.model

\* resolve_skip_only: the languages not to translate, the only ones to translate
Skip(target) ==
    CASE Mode = "skip_known" -> kv.known
      [] Mode = "only_unknown" /\ kv.unknown # {} -> {}
      [] Mode = "only_unknown" /\ kv.unknown = {} -> {target}
      [] OTHER -> kv.known \cup {target}
Only == IF Mode = "only_unknown" THEN kv.unknown ELSE {}

-----------------------------------------------------------------------------
(* A pass over a history, or over one message *)

Begin(p) ==
    /\ pass[p].at = "idle"
    /\ pass' = [pass EXCEPT ![p] = [NoPass EXCEPT !.at = "mode", !.target = Target]]
    /\ UNCHANGED <<kv, decisions, save, card, live, saves, torn>>

\* translate_history reads the mode after the target, and stops when it is off.
ReadMode(p) ==
    /\ pass[p].at = "mode"
    /\ pass' = [pass EXCEPT ![p] = IF pass[p].target = Unset \/ Mode = "off"
                                   THEN NoPass ELSE [@ EXCEPT !.at = "lists"]]
    /\ UNCHANGED <<kv, decisions, save, card, live, saves, torn>>

ReadLists(p) ==
    /\ pass[p].at = "lists"
    /\ pass' = [pass EXCEPT ![p] = [@ EXCEPT !.at = "lookup", !.skip = Skip(pass[p].target),
                                             !.only = Only, !.left = Messages]]
    /\ UNCHANGED <<kv, decisions, save, card, live, saves, torn>>

\* get_message_translation: the row holds a decision for that target.
Cached(m, target) == decisions[m].lang = target

\* A decision as it is written: fresh until a change of the settings ends.
Decision(lang, text, by) == [lang |-> lang, text |-> text, by |-> by, fresh |-> TRUE]

Known(p, m) ==
    /\ Cached(m, pass[p].target)
    /\ pass' = [pass EXCEPT ![p].left = @ \ {m}]
    /\ UNCHANGED decisions

NoLetters(p, m) ==
    /\ ~Cached(m, pass[p].target) /\ m \in Wordless
    /\ decisions' = [decisions EXCEPT ![m] = Decision(pass[p].target, Unset, "rule")]
    /\ pass' = [pass EXCEPT ![p].left = @ \ {m}]

AskAbout(p, m) ==
    /\ ~Cached(m, pass[p].target) /\ m \notin Wordless
    /\ pass' = [pass EXCEPT ![p].left = @ \ {m}, ![p].asked = @ \cup {m}]
    /\ UNCHANGED decisions

LookupFails(p, m) ==
    /\ pass' = [pass EXCEPT ![p].left = @ \ {m}]
    /\ UNCHANGED decisions

\* _prepare_message, message by message
LookUp(p) ==
    /\ pass[p].at = "lookup" /\ pass[p].left # {}
    /\ LET m == CHOOSE n \in pass[p].left : TRUE
       IN  Known(p, m) \/ NoLetters(p, m) \/ AskAbout(p, m) \/ LookupFails(p, m)
    /\ UNCHANGED <<kv, save, card, live, saves, torn>>

LookedUp(p) ==
    /\ pass[p].at = "lookup" /\ pass[p].left = {}
    /\ pass' = [pass EXCEPT ![p] = IF pass[p].asked = {} THEN NoPass ELSE [@ EXCEPT !.at = "call"]]
    /\ UNCHANGED <<kv, decisions, save, card, live, saves, torn>>

\* What the translator is told to translate of those it is asked.
Foreign(p) ==
    {m \in pass[p].asked :
        /\ MessageLang[m] # pass[p].target
        /\ MessageLang[m] \notin pass[p].skip
        /\ pass[p].only # {} => MessageLang[m] \in pass[p].only}

Answer(p) ==
    /\ pass[p].at = "call"
    /\ pass' = [pass EXCEPT ![p] = [@ EXCEPT !.at = "store", !.got = Foreign(p), !.by = "model"]]
    /\ UNCHANGED <<kv, decisions, save, card, live, saves, torn>>

\* _structured_translate catches every error, its fallback too: make_translate_fn
\* returns no items, and a message without an item is stored as a decision.
NoAnswer(p) ==
    /\ pass[p].at = "call"
    /\ pass' = [pass EXCEPT ![p] = [@ EXCEPT !.at = "store", !.got = {}, !.by = "failure"]]
    /\ UNCHANGED <<kv, decisions, save, card, live, saves, torn>>

Store(p) ==
    /\ pass[p].at = "store"
    /\ LET m == CHOOSE n \in pass[p].asked : TRUE
           text == IF m \in pass[p].got THEN pass[p].target ELSE Unset
           rest == pass[p].asked \ {m}
           after == IF rest = {} THEN NoPass ELSE [pass[p] EXCEPT !.asked = rest]
       IN  /\ decisions' = [decisions EXCEPT ![m] = Decision(pass[p].target, text, pass[p].by)]
           /\ pass' = [pass EXCEPT ![p] = after]
    /\ UNCHANGED <<kv, save, card, live, saves, torn>>

\* A stream ends, its 30 seconds are over, a worker is replaced, translate_fn raises.
Abandon(p) ==
    /\ pass[p].at # "idle"
    /\ pass' = [pass EXCEPT ![p] = NoPass]
    /\ UNCHANGED <<kv, decisions, save, card, live, saves, torn>>

-----------------------------------------------------------------------------
(* The writers *)

Write(key, value) == [key |-> key, value |-> value]
Given(given, write) == IF given THEN <<write>> ELSE <<>>
Idle(w) == save[w].at = "idle"

StartsWith(w, writes) ==
    /\ saves < MaxSaves
    /\ saves' = saves + 1
    /\ save' = [save EXCEPT ![w] = [at |-> "put", writes |-> writes]]

WebSaves ==
    /\ Idle("web")
    /\ \E target \in Langs \cup {Unset} : StartsWith("web", <<Write("target", target)>>)
    /\ UNCHANGED <<kv, decisions, pass, card, live, torn>>

CommandSaves ==
    /\ Idle("command")
    /\ \/ StartsWith("command", <<Write("target", Unset), Write("mode", "off")>>)
       \/ \E target \in Langs, known, unknown \in Lists, mode \in UserModes,
             keys \in SUBSET {"target", "known", "unknown", "mode"} :
            /\ keys # {}
            /\ StartsWith("command",
                          Given("target" \in keys, Write("target", target))
                            \o Given("known" \in keys, Write("known", known))
                            \o Given("unknown" \in keys, Write("unknown", unknown))
                            \o Given("mode" \in keys, Write("mode", mode)))
    /\ UNCHANGED <<kv, decisions, pass, card, live, torn>>

\* A mutation of PutThenClear: the cache is cleared before the setting is written.
FaultClearsFirst(w) ==
    LET write == Head(save[w].writes) IN
    \/ /\ save[w].at = "put"
       /\ decisions' = [m \in Messages |-> NoDecision]
       /\ save' = [save EXCEPT ![w].at = "clear"]
       /\ UNCHANGED kv
    \/ /\ save[w].at = "clear"
       /\ kv' = [kv EXCEPT ![write.key] = write.value]
       /\ save' = [save EXCEPT ![w] = [at |-> "put", writes |-> Tail(@.writes)]]
       /\ decisions' = [m \in Messages |-> IF decisions[m] = NoDecision THEN NoDecision
                                      ELSE [decisions[m] EXCEPT !.fresh = FALSE]]

\* set_user_lang, _set_lang_list, set_translate_mode and set_translate_model: the
\* setting, then clear_all_translations.
PutThenClear(w) ==
    LET write == Head(save[w].writes) IN
    \/ /\ save[w].at = "put"
       /\ kv' = [kv EXCEPT ![write.key] = write.value]
       /\ save' = [save EXCEPT ![w].at = "clear"]
       /\ decisions' = [m \in Messages |-> IF decisions[m] = NoDecision THEN NoDecision
                                      ELSE [decisions[m] EXCEPT !.fresh = FALSE]]
    \/ /\ save[w].at = "clear"
       /\ decisions' = [m \in Messages |-> NoDecision]
       /\ save' = [save EXCEPT ![w] = [at |-> "put", writes |-> Tail(@.writes)]]
       /\ UNCHANGED kv

SaveStep(w) ==
    /\ save[w].at \in {"put", "clear"} /\ save[w].writes # <<>>
    /\ PutThenClear(w)
    /\ UNCHANGED <<pass, card, live, saves, torn>>

Stopped(w) == torn' = (torn \/ save[w].at = "clear")

Fails(w) ==
    /\ save[w].at # "idle"
    /\ save' = [save EXCEPT ![w] = NoSave]
    /\ Stopped(w)
    /\ UNCHANGED <<kv, decisions, pass, card, live, saves>>

Saved(w) ==
    /\ w # "card" /\ save[w].at = "put" /\ save[w].writes = <<>>
    /\ save' = [save EXCEPT ![w] = NoSave]
    /\ UNCHANGED <<kv, decisions, pass, card, live, saves, torn>>

-----------------------------------------------------------------------------
(* The settings card *)

\* TranslateSettingsCard._load; the event of the radio button comes later.
OpenCard ==
    /\ ~card.open
    /\ card' = [open |-> TRUE, echo |-> TRUE, appliedMode |-> Mode, appliedModel |-> Model,
                fields |-> [target |-> Target, mode |-> Mode, known |-> kv.known,
                            unknown |-> kv.unknown, model |-> Model]]
    /\ UNCHANGED <<kv, decisions, pass, save, live, saves, torn>>

CloseCard ==
    /\ card.open
    /\ card' = Closed
    /\ save' = [save EXCEPT !["card"] = NoSave]
    /\ Stopped("card")
    /\ UNCHANGED <<kv, decisions, pass, live, saves>>

\* The writes of one save of the card: set_settings, then the model.
CardWrites ==
    LET f == card.fields IN
    Given(f.target # Unset, Write("target", f.target))
      \o <<Write("known", f.known), Write("unknown", f.unknown), Write("mode", f.mode)>>
      \o Given(f.model # card.appliedModel, Write("model", f.model))

\* run_worker(_save(), exclusive=True): the save under way is cancelled.
CardSaves(fields) ==
    /\ saves < MaxSaves
    /\ saves' = saves + 1
    /\ Stopped("card")
    /\ card' = [card EXCEPT !.fields = fields]
    /\ save' = [save EXCEPT !["card"] = [at |-> "check", writes |-> <<>>]]

Press ==
    /\ card.open
    /\ \E mode \in UserModes \ {card.fields.mode, card.appliedMode} :
          CardSaves([card.fields EXCEPT !.mode = mode])
    /\ UNCHANGED <<kv, decisions, pass, live>>

Enter ==
    /\ card.open
    /\ \E model \in Models \cup {Unset}, known \in Lists :
          CardSaves([card.fields EXCEPT !.model = model, !.known = known])
    /\ UNCHANGED <<kv, decisions, pass, live>>

\* The event of the button that _load pressed: a save only if the modes differ.
Echo ==
    /\ card.open /\ card.echo
    /\ IF card.fields.mode = card.appliedMode
       THEN UNCHANGED <<save, saves, torn>>
       ELSE /\ saves < MaxSaves
            /\ saves' = saves + 1
            /\ Stopped("card")
            /\ save' = [save EXCEPT !["card"] = [at |-> "check", writes |-> <<>>]]
    /\ card' = [card EXCEPT !.echo = FALSE]
    /\ UNCHANGED <<kv, decisions, pass, live>>

Built == IF card.fields.model = Unset THEN EnvModel ELSE card.fields.model

\* A mutation of Proven: the new translator is adopted once its model is proven.
FaultAdoptsAtOnce == live' = Built

Proven == UNCHANGED live

\* _validate_model: nothing is written before a changed model has been built.
CheckModel ==
    /\ save["card"].at = "check"
    /\ card.fields.model # card.appliedModel => card.fields.model # Unset \/ EnvModel # Unset
    /\ save' = [save EXCEPT !["card"] = [at |-> "put", writes |-> CardWrites]]
    /\ IF card.fields.model = card.appliedModel THEN UNCHANGED live ELSE Proven
    /\ UNCHANGED <<kv, decisions, pass, card, saves, torn>>

\* Everything is committed: the translator built for the new model is adopted, and
\* the screen closes with it.
CardSaved ==
    /\ save["card"].at = "put" /\ save["card"].writes = <<>>
    /\ save' = [save EXCEPT !["card"] = NoSave]
    /\ LET changed == card.fields.model # card.appliedModel
       IN  /\ card' = IF changed THEN Closed
                      ELSE [card EXCEPT !.appliedMode = card.fields.mode]
           /\ live' = IF changed THEN Built ELSE live
    /\ UNCHANGED <<kv, decisions, pass, saves, torn>>

TranslationNext ==
    \/ \E p \in Passes :
          Begin(p) \/ ReadMode(p) \/ ReadLists(p) \/ LookUp(p) \/ LookedUp(p)
            \/ Answer(p) \/ NoAnswer(p) \/ Store(p) \/ Abandon(p)
    \/ \E w \in Writers : SaveStep(w) \/ Fails(w) \/ Saved(w)
    \/ WebSaves \/ CommandSaves
    \/ OpenCard \/ CloseCard \/ Press \/ Enter \/ Echo \/ CheckModel \/ CardSaved

TranslationSpec == TranslationInit /\ [][TranslationNext]_translationVars

-----------------------------------------------------------------------------
\* No decision outlives a change of the settings: once the save of a setting has
\* ended undisturbed, every cached decision was written after the setting was
\* ("changing it must drop cached rows so the next read re-decides").
NothingOutlivesAChange ==
    \/ \A m \in Messages : decisions[m].fresh
    \/ \E w \in Writers : save[w].at = "clear"
    \/ torn

\* The translator in use is replaced only by one whose model is already stored
\* ("a later settings failure can't leave a persisted model diverging from the live
\* translator").
AdoptedIsStored == [][live' # live => live' = Model]_translationVars

\* A cached "no translation needed" is somebody's decision: the rule's or the
\* model's, never the mark of a call that failed.
MarkersAreDecisions == \A m \in Messages : decisions[m].lang # Unset => decisions[m].by # "failure"
=============================================================================
