-------------------------------- MODULE Forms --------------------------------
(***************************************************************************)
(* lib.forms under lib.i18n: one form of a process, shown, submitted and     *)
(* validated by requests that run on one event loop.                        *)
(*                                                                         *)
(* I18nMiddleware binds a locale to a request.  A form is rendered field by  *)
(* field, with an await of the template engine after each, so requests of    *)
(* several locales are under way at once.  They share the translations and   *)
(* the form class, whose field metadata rendering changes: the texts of a    *)
(* select's options are translated in place.                                *)
(*                                                                         *)
(* The texts of buttons, of the success context and of what is restored on   *)
(* cancel are translated like a label; html attributes, CSRF headers and     *)
(* what a query string overrides are not told apart.                        *)
(***************************************************************************)
EXTENDS Naturals, Sequences, FiniteSets, SequencesExt

CONSTANTS
    Clients,        \* requests
    Locales,        \* locales the application may load
    Tags,           \* what clients ask for: "fr-CH"
    Base,           \* Base[t]: the locale before the dash, or none
    NoTag,
    Default,        \* default_locale
    Fallback,       \* fallback_locale
    Keys,           \* translation keys
    Shipped,        \* Shipped[l]: keys translated at startup; none: not loaded
    Dotted,         \* keys whose translations contain a dot
    FormFields,     \* fields: label, a key; options, a sequence of keys
    Raw             \* "in" of a text that is still a key

ASSUME FormsAssumption ==
    /\ {Default, Fallback} \subseteq Locales
    /\ Base \in [Tags -> Locales]
    /\ Shipped \in [Locales -> SUBSET Keys] /\ Dotted \subseteq Keys
    /\ Shipped[Fallback] # {}
    /\ \A n \in 1..Len(FormFields) :
          FormFields[n].label \in Keys /\ FormFields[n].options \in Seq(Keys)

VARIABLES
    setting,        \* raise_on_missing, and a condition of attributes_if
    translations,   \* _translations: the keys of each locale
    options,        \* options[n]: the texts of field n's options in the class
    clients,        \* clients[c]: its request
    awaited         \* the condition was a coroutine and has been awaited

forms == <<setting, translations, options, clients, awaited>>

Text == [key : Keys, in : Locales \cup {Raw}]
Kinds == {"show", "submit", "validate"}
\* asked: the locale the middleware chose; field: the next field to render;
\* outcome: what the answer says.
ClientType ==
    [at : {"idle", "asked", "working", "rendering", "sent"}, kind : Kinds,
     locale : Locales, asked : Locales, field : Nat, labels : Seq(Text),
     shown : Seq(Seq(Text)), outcome : {"none", "success", "invalid", "error", "500"}]
NoRequest ==
    [at |-> "idle", kind |-> "show", locale |-> Default, asked |-> Default, field |-> 1,
     labels |-> <<>>, shown |-> <<>>, outcome |-> "none"]

Settings == [strict : BOOLEAN, condition : {"none", "coroutine"}]

FormsInit ==
    /\ setting \in Settings
    /\ translations = Shipped
    /\ options = [n \in 1..Len(FormFields) |->
                    [m \in 1..Len(FormFields[n].options) |->
                        [key |-> FormFields[n].options[m], in |-> Raw]]]
    /\ clients = [c \in Clients |-> NoRequest]
    /\ awaited = FALSE

-----------------------------------------------------------------------------
(* I18n and Translator.                                                     *)

Loaded == {l \in Locales : translations[l] # {}}

\* negotiate_locale: the query, the cookie and the header, in this order; a
\* tag counts when its locale, or that of its base language, is loaded.
Negotiate(asked) ==
    LET fitting == {n \in 1..Len(asked) : asked[n] # NoTag /\ Base[asked[n]] \in Loaded}
    IN IF fitting = {} THEN Default
       ELSE Base[asked[CHOOSE n \in fitting : \A m \in fitting : n <= m]]

\* get_translator(): a locale that is not loaded is the fallback's.
Resolved(l) == IF l \in Loaded THEN l ELSE Fallback

\* Translator._resolve: where a key is found.
Lookup(l, k) ==
    IF k \in translations[Resolved(l)] THEN Resolved(l)
    ELSE IF k \in translations[Fallback] THEN Fallback
    ELSE Raw

\* _t of a text that contains a dot: a key, or a translation taken for one,
\* which is not found.
Translated(l, t) == IF t.in = Raw THEN [t EXCEPT !.in = Lookup(l, t.key)] ELSE t
Misses(l, t) ==
    /\ setting.strict
    /\ IF t.in = Raw THEN Lookup(l, t.key) = Raw ELSE t.key \in Dotted

\* _build_field_context translates twice.
MissesTwice(l, t) == Misses(l, t) \/ Misses(l, Translated(l, t))

\* add_translations or load_locale, at any time.
AddTranslations(l, k) ==
    /\ k \notin translations[l]
    /\ translations' = [translations EXCEPT ![l] = @ \cup {k}]
    /\ UNCHANGED <<setting, options, clients, awaited>>

-----------------------------------------------------------------------------
(* A request.                                                               *)

\* Mutant: the locale is a variable of the process.
ArriveShared(c, kind, asked) ==
    /\ clients[c].at = "idle"
    /\ clients' = [x \in Clients |->
          IF x = c
          THEN [NoRequest EXCEPT !.at = IF kind = "show" THEN "rendering" ELSE "asked",
                   !.kind = kind, !.locale = Negotiate(asked), !.asked = Negotiate(asked)]
          ELSE [clients[x] EXCEPT !.locale = Negotiate(asked)]]
    /\ UNCHANGED <<setting, translations, options, awaited>>

\* I18nMiddleware sets the locale of the request's own context.
Arrive(c, kind, asked) ==
    /\ clients[c].at = "idle"
    /\ clients' = [clients EXCEPT ![c] =
          [NoRequest EXCEPT !.at = IF kind = "show" THEN "rendering" ELSE "asked",
             !.kind = kind, !.locale = Negotiate(asked), !.asked = Negotiate(asked)]]
    /\ UNCHANGED <<setting, translations, options, awaited>>

Answers(c, outcome) == [clients[c] EXCEPT !.at = "sent", !.outcome = outcome]
Renders(c, outcome) ==
    [clients[c] EXCEPT !.at = "rendering", !.field = 1, !.labels = <<>>,
        !.shown = <<>>, !.outcome = outcome]

\* _handle_field_validation: the errors of the field, or none; anything but a
\* ValidationError counts as none.
ValidateField(c) ==
    /\ clients[c].at = "asked" /\ clients[c].kind = "validate"
    /\ \E outcome \in {"none", "invalid"} : clients' = [clients EXCEPT ![c] = Answers(c, outcome)]
    /\ UNCHANGED <<setting, translations, options, awaited>>

\* _handle_submit up to the service.  A coroutine can be awaited once; that
\* error is raised before the try.  A body or a service that cannot be read or
\* resolved is an error, an invalid one is shown with its errors.
Submit(c) ==
    /\ clients[c].at = "asked" /\ clients[c].kind = "submit"
    /\ awaited' = (awaited \/ setting.condition = "coroutine")
    /\ clients' \in
          IF setting.condition = "coroutine" /\ awaited
          THEN {[clients EXCEPT ![c] = Answers(c, "500")]}
          ELSE {[clients EXCEPT ![c] = Renders(c, "error")],
                [clients EXCEPT ![c] = Renders(c, "invalid")],
                [clients EXCEPT ![c] = [@ EXCEPT !.at = "working"]]}
    /\ UNCHANGED <<setting, translations, options>>

\* The service returns, raises a ValidationError of its own or another error;
\* a result that is no JSON is an error too, whose page says so although the
\* service has done its work.
Work(c) ==
    /\ clients[c].at = "working"
    /\ \E outcome \in {"success", "invalid", "error"} :
          clients' = [clients EXCEPT ![c] = Renders(c, outcome)]
    /\ UNCHANGED <<setting, translations, options, awaited>>

\* An error while rendering: a success is rendered again as an error, inside
\* the handler that catches it; otherwise the server answers 500.
RenderFails(c) ==
    IF clients[c].kind = "submit" /\ clients[c].outcome = "success"
    THEN Renders(c, "error") ELSE Answers(c, "500")

\* The options of a field are translated up to one that raises.
NewOptions(l, opts) ==
    [m \in 1..Len(opts) |->
        IF \E k \in 1..m : Misses(l, opts[k]) THEN opts[m] ELSE Translated(l, opts[m])]

\* render_form_field: the context in one step, then the template.
RenderField(c) ==
    LET n == clients[c].field
        l == clients[c].locale
        label == [key |-> FormFields[n].label, in |-> Raw]
        fails == MissesTwice(l, label) \/ \E m \in 1..Len(options[n]) : MissesTwice(l, options[n][m])
    IN /\ clients[c].at = "rendering" /\ n <= Len(FormFields)
       /\ options' = IF Misses(l, label) THEN options
                     ELSE [options EXCEPT ![n] = NewOptions(l, @)]
       /\ clients' = [clients EXCEPT ![c] =
             IF fails THEN RenderFails(c)
             ELSE [clients[c] EXCEPT !.field = n + 1,
                      !.labels = Append(@, Translated(l, label)),
                      !.shown = Append(@, NewOptions(l, options[n]))]]
       /\ UNCHANGED <<setting, translations, awaited>>

\* Buttons, the success context and the form's tag; then the answer is sent.
WrapForm(c) ==
    /\ clients[c].at = "rendering" /\ clients[c].field > Len(FormFields)
    /\ clients' = [clients EXCEPT ![c] = [@ EXCEPT !.at = "sent"]]
    /\ UNCHANGED <<setting, translations, options, awaited>>

FormsNext ==
    \/ \E c \in Clients :
          \/ \E kind \in Kinds, query, header \in Tags \cup {NoTag} :
                Arrive(c, kind, <<query, header>>)
          \/ ValidateField(c) \/ Submit(c) \/ Work(c) \/ RenderField(c) \/ WrapForm(c)
    \/ \E l \in Locales, k \in Keys : AddTranslations(l, k)

FormsSpec == FormsInit /\ [][FormsNext]_forms
-----------------------------------------------------------------------------
(* Properties.                                                              *)

FormsTypeOK ==
    /\ setting \in Settings
    /\ translations \in [Locales -> SUBSET Keys]
    /\ \A n \in DOMAIN options : options[n] \in Seq(Text)
    /\ clients \in [Clients -> ClientType]
    /\ awaited \in BOOLEAN

\* A label is in the language its own request negotiated, whoever else is being
\* rendered between two of its fields, when that language shipped with it; and
\* never in a language nobody asked for.  The options of a select are not: they
\* stay in the language of the first request that showed them.
PagesSpeakTheirLanguage ==
    \A c \in Clients : \A n \in 1..Len(clients[c].labels) :
        LET t == clients[c].labels[n] IN
        /\ t.key \in Shipped[clients[c].asked] => t.in = clients[c].asked
        /\ t.in \in {clients[c].asked, Fallback, Raw}
=============================================================================
