------------------------------ MODULE Rendering ------------------------------
(***************************************************************************)
(* From a request to the text the recipient sees: Renderer.Render          *)
(* (internal/template/render.go), the mail that the SMTP adapter builds    *)
(* around it (internal/provider/email/{message,layout,brand}.go) and the   *)
(* HTML message of the Telegram bot (internal/provider/telegrambot).       *)
(*                                                                         *)
(* A text is the set of the tokens <<kind, name, n>> it is made of:        *)
(*   words     text without a special character; "tail" is text beyond the *)
(*             length that Telegram messages are cut to                    *)
(*   slot      a placeholder {{name}}                                      *)
(*   literal   a character such as < or & that is to be read as written    *)
(*   markup    a tag that is to be obeyed                                  *)
(*   torn      an entity such as &amp; that was cut in two                 *)
(* n counts how often a literal or a tag has been escaped.  Order and      *)
(* repetition within a text are left out, and so are placeholders that a   *)
(* value completes only together with its surroundings.                    *)
(***************************************************************************)
EXTENDS Naturals, Sequences

CONSTANTS
    Items,          \* template -> [subject, html, html_file, text, text_file, body, type, required]
    Family,         \* template names that start with "notification_"
    DefaultLocale,
    Russian,        \* locales that the bot answers in Russian
    File,           \* path -> text
    SMTP,           \* SMTP adapters, [layout, brands, default_brand, sender_ok]
    Label, Link,    \* the unsubscribe label and address
    Deployed,       \* field of TelegramBot.Presentation -> language -> text or {}
    PublicBase,     \* PublicBaseURL is an https address
    Events          \* what is sent: requests, and the greetings of the webhook

VARIABLES
    event,          \* the provider.Message's Template, Variables and Metadata
    smtp,           \* the SMTP adapter that has got it
    disk,           \* the template files that can be read
    stage,
    todo,           \* variables that replaceVariables has not come to yet
    subject, body, html,   \* Rendered; html: ContentType is text/html
    out             \* what leaves the service

vars == <<event, smtp, disk, stage, todo, subject, body, html, out>>

NoOut == [text |-> {}, html |-> FALSE, unsubscribe |-> FALSE, button |-> FALSE]
Unreadable == {<<"unreadable", "", 0>>}
NoItem == [required |-> {}]
NoAdapter == [sender_ok |-> FALSE]

Init ==
    /\ event \in Events
    /\ smtp = NoAdapter
    /\ disk \in SUBSET DOMAIN File
    /\ stage = IF event.greeting THEN "rendered" ELSE "new"
    /\ todo = {} /\ subject = {} /\ body = {} /\ html = FALSE
    /\ out = NoOut

-----------------------------------------------------------------------------
(* Texts *)

Slot(k) == <<"slot", k, 0>>
Slots(t) == {tok \in t : tok[1] = "slot"}
Special == {"literal", "markup"}

\* html.EscapeString
Escape(t) == {IF tok[1] \in Special THEN <<tok[1], tok[2], tok[3] + 1>> ELSE tok : tok \in t}

\* htmlToPlainText: tags are dropped and entities decoded.
PlainText(t) ==
    {IF tok[1] \in Special THEN <<tok[1], tok[2], tok[3] - 1>> ELSE tok :
        tok \in {x \in t : x[1] \in Special => x[3] > 0}}

\* truncateRunes; an entity may lie across the cut.
Truncate(t) ==
    LET tail == {tok \in t : tok[1] = "tail"}
    IN IF tail = {} THEN t
       ELSE (t \ tail) \cup {<<"torn", tok[2], tok[3]>> : tok \in {x \in t : x[1] = "literal" /\ x[3] > 0}}

\* Mutant of Replace: the placeholder is left behind.
ReplaceKeepsSlot(t, k, value) == IF Slot(k) \in t THEN t \cup value ELSE t

\* strings.ReplaceAll of {{k}}
Replace(t, k, value) == IF Slot(k) \in t THEN (t \ {Slot(k)}) \cup value ELSE t

Localized(values, locale) ==
    IF locale \in DOMAIN values /\ values[locale] # {} THEN values[locale]
    ELSE IF DefaultLocale \in DOMAIN values THEN values[DefaultLocale] ELSE {}

FirstNonBlank(a, b) == IF a # {} THEN a ELSE b

-----------------------------------------------------------------------------
(* Renderer.Render *)

Custom == {"notification_custom_text", "notification_custom_html"}

ItemOf(e) ==
    IF e.template \in DOMAIN Items THEN Items[e.template]
    ELSE IF e.template \in Family /\ "notification" \in DOMAIN Items THEN Items["notification"]
    ELSE NoItem

LocaleOf(e) == IF e.locale = "" THEN DefaultLocale ELSE e.locale

\* A body file is read anew for every message.
ReadTemplateFile(path) == IF path \in disk THEN File[path] ELSE Unreadable

\* The item's own ContentType goes before the one its kind of body implies.
IsHtml(item, type) == (IF item.type = "" THEN type ELSE item.type) = "html"

(***************************************************************************)
(* The first of the five bodies that the item has in the locale or in the  *)
(* default one.                                                            *)
(***************************************************************************)
Body(item, locale) ==
    LET Of(field) == Localized(item[field], locale)
        As(text, type) == [text |-> text, html |-> IsHtml(item, type)]
    IN IF Of("html") # {} THEN As(Of("html"), "html")
       ELSE IF Of("html_file") # {} THEN As(ReadTemplateFile(Of("html_file")), "html")
       ELSE IF Of("text") # {} THEN As(Of("text"), "plain")
       ELSE IF Of("text_file") # {} THEN As(ReadTemplateFile(Of("text_file")), "plain")
       ELSE As(Of("body"), "plain")

BodyOf(e) == Body(ItemOf(e), LocaleOf(e))

\* fit: neither text is blank or too long, and the subject is one line.
SnapshotOK(e) == {"template_subject", "template_body"} \subseteq DOMAIN e.variables /\ e.fit

TemplateOK(e) ==
    /\ ItemOf(e) # NoItem
    /\ ItemOf(e).required \subseteq DOMAIN e.variables
    /\ BodyOf(e).text \notin {{}, Unreadable}

\* The producer's snapshot, which is not interpolated again.
RenderSnapshot ==
    /\ stage = "new" /\ event.template \in Custom /\ SnapshotOK(event)
    /\ stage' = "rendered"
    /\ subject' = event.variables["template_subject"]
    /\ body' = event.variables["template_body"]
    /\ html' = (event.template = "notification_custom_html")
    /\ UNCHANGED <<event, smtp, disk, todo, out>>

RenderFails ==
    /\ stage = "new"
    /\ IF event.template \in Custom THEN ~SnapshotOK(event) ELSE ~TemplateOK(event)
    /\ stage' = "template_error"
    /\ UNCHANGED <<event, smtp, disk, todo, subject, body, html, out>>

RenderBegins ==
    /\ stage = "new" /\ event.template \notin Custom /\ TemplateOK(event)
    /\ stage' = "subject"
    /\ subject' = Localized(ItemOf(event).subject, LocaleOf(event))
    /\ body' = BodyOf(event).text
    /\ html' = BodyOf(event).html
    /\ todo' = DOMAIN event.variables
    /\ UNCHANGED <<event, smtp, disk, out>>

\* One turn of the range over the variables, which comes in any order.
ReplaceInSubject(k) ==
    /\ stage = "subject" /\ k \in todo
    /\ subject' = Replace(subject, k, event.variables[k])
    /\ todo' = todo \ {k}
    /\ UNCHANGED <<event, smtp, disk, stage, body, html, out>>

SubjectDone ==
    /\ stage = "subject" /\ todo = {}
    /\ stage' = "body"
    /\ todo' = DOMAIN event.variables
    /\ UNCHANGED <<event, smtp, disk, subject, body, html, out>>

\* Mutant of ReplaceInBody: the text is escaped after the value went in.
ReplaceInBodyEscapesAll(k) ==
    /\ stage = "body" /\ k \in todo
    /\ body' = IF html /\ Slot(k) \in body THEN Escape(Replace(body, k, event.variables[k]))
               ELSE Replace(body, k, event.variables[k])
    /\ todo' = todo \ {k}
    /\ UNCHANGED <<event, smtp, disk, stage, subject, html, out>>

ReplaceInBody(k) ==
    /\ stage = "body" /\ k \in todo
    /\ body' = Replace(body, k, IF html THEN Escape(event.variables[k]) ELSE event.variables[k])
    /\ todo' = todo \ {k}
    /\ UNCHANGED <<event, smtp, disk, stage, subject, html, out>>

BodyDone ==
    /\ stage = "body" /\ todo = {}
    /\ stage' = "rendered"
    /\ UNCHANGED <<event, smtp, disk, todo, subject, body, html, out>>

-----------------------------------------------------------------------------
(* SMTP.message and buildMessage *)

\* The layout of an adapter or of a brand is {} when there is none; sender_ok:
\* the From of an adapter without brands is an address.
BrandOf(a, e) == IF e.brand = "" THEN a.default_brand ELSE e.brand

LayoutOf(a, e) ==
    IF e.template = "notification_custom_html" /\ ~e.apply_layout THEN {}
    ELSE IF DOMAIN a.brands = {} THEN a.layout ELSE a.brands[BrandOf(a, e)]

\* Links and one-click headers are asked for by the metadata alone.
MailOK(a, e) ==
    /\ IF DOMAIN a.brands = {} THEN a.sender_ok ELSE BrandOf(a, e) \in DOMAIN a.brands
    /\ LayoutOf(a, e) # {} => {Slot("body"), Slot("footer")} \subseteq LayoutOf(a, e)
    /\ e.unsubscribe \in {"", "https"}
    /\ e.unsubscribe = "https" /\ ~e.in_body => e.label

Tag == {<<"markup", "", 0>>}

ShowsLink(e) == e.unsubscribe = "https" /\ ~e.in_body

HtmlLink == Tag \cup Escape(Link) \cup Escape(Label)

\* Mutant of WithLink: a text mail shows no link.
WithLinkHtmlOnly(e, text, isHtml) ==
    IF ~ShowsLink(e) \/ ~isHtml THEN text ELSE text \cup HtmlLink

\* The body with the link behind it, for a mail without a layout.
WithLink(e, text, isHtml) ==
    IF ~ShowsLink(e) THEN text ELSE text \cup (IF isHtml THEN HtmlLink ELSE Link \cup Label)

\* Mutant of ApplyLayout: the footer goes in first, with ReplaceAll, and then
\* the body.
ApplyLayoutTwice(layout, text, footer) ==
    Replace(Replace(layout, "body", text), "footer", footer)

\* NewReplacer makes one pass: what comes in with the body is not looked at.
ApplyLayout(layout, text, footer) ==
    (layout \ {Slot("body"), Slot("footer")}) \cup text \cup footer

\* Mutant of MailText: with a layout, too, the link is put behind the body.
MailTextLinkFirst(a, e) ==
    IF LayoutOf(a, e) = {} THEN WithLink(e, body, html)
    ELSE LET text == WithLink(e, body, TRUE)
         IN ApplyLayout(LayoutOf(a, e), IF html THEN text ELSE Tag \cup Escape(text), {})

MailText(a, e) ==
    IF LayoutOf(a, e) = {} THEN WithLink(e, body, html)
    ELSE ApplyLayout(LayoutOf(a, e),
                     IF html THEN body ELSE Tag \cup Escape(body),
                     IF ShowsLink(e) THEN HtmlLink ELSE {})

SendMail ==
    /\ stage = "rendered" /\ ~event.greeting
    /\ \E a \in SMTP :
          /\ smtp' = a
          /\ IF MailOK(a, event)
             THEN LET isHtml == html \/ LayoutOf(a, event) # {}
                  IN /\ out' = [text |-> MailText(a, event) \cup (IF isHtml THEN Tag ELSE {}), html |-> isHtml,
                                unsubscribe |-> event.unsubscribe = "https", button |-> FALSE]
                     /\ stage' = "mailed"
             ELSE stage' = "smtp_invalid_message" /\ UNCHANGED out
    /\ UNCHANGED <<event, disk, todo, subject, body, html>>

-----------------------------------------------------------------------------
(* telegramMessage *)

Fields == {"StartTitle", "StartBody", "WelcomeTitle", "WelcomeBody",
           "NotificationFallbackTitle", "NotificationFooter"}

BotLocale(e) == IF e.locale \in Russian THEN "ru" ELSE "en"

\* WithDefaults: a text of the deployment, or the service's own.
Copy(field, language) ==
    FirstNonBlank(Deployed[field][language], {<<"words", field \o language, 0>>})

BotCopy(field, e) == Copy(field, BotLocale(e))

TelegramBody(e) == FirstNonBlank(e.tg_body, IF html THEN PlainText(body) ELSE body)

\* Mutant of Passage: the text is cut after it was escaped.
PassageCutLate(t) == Truncate(Escape(t))
Passage(t) == Escape(Truncate(t))

Headed(title, text) ==
    Tag \cup Passage(title) \cup (IF text # title THEN Passage(text) ELSE {})

\* telegramWelcomeText
Greeting(e) ==
    LET start == e.presentation = "start"
    IN Headed(FirstNonBlank(subject, BotCopy(IF start THEN "StartTitle" ELSE "WelcomeTitle", e)),
              FirstNonBlank(TelegramBody(e), BotCopy(IF start THEN "StartBody" ELSE "WelcomeBody", e)))

Notification(e) ==
    LET title == FirstNonBlank(FirstNonBlank(e.tg_title, subject), BotCopy("NotificationFallbackTitle", e))
        heading == IF e.chat THEN {<<"words", "message from", 0>>} \cup title ELSE title
    IN Headed(heading, TelegramBody(e)) \cup Escape(BotCopy("NotificationFooter", e))

SendBotMessage ==
    /\ stage = "rendered"
    /\ stage' = "posted"
    /\ LET greets == event.presentation \in {"start", "welcome"}
       IN out' = [text |-> IF greets THEN Greeting(event) ELSE Notification(event), html |-> TRUE,
                  unsubscribe |-> FALSE, button |-> ~greets /\ PublicBase /\ event.target]
    /\ UNCHANGED <<event, smtp, disk, todo, subject, body, html>>

Next ==
    \/ RenderSnapshot \/ RenderFails \/ RenderBegins
    \/ \E k \in todo : ReplaceInSubject(k) \/ ReplaceInBody(k)
    \/ SubjectDone \/ BodyDone
    \/ SendMail \/ SendBotMessage

Spec == Init /\ [][Next]_vars

-----------------------------------------------------------------------------
(* Properties *)

Final == {"template_error", "smtp_invalid_message", "mailed", "posted"}
Sent == {"mailed", "posted"}

\* A text that a reader sees as it was meant: in HTML every literal is escaped
\* once and every tag is live, elsewhere nothing is escaped and there is no tag.
Proper(t, isHtml) ==
    \A tok \in t :
       /\ tok[1] \in {"words", "tail", "slot", "literal", "markup"}
       /\ tok[1] = "literal" => tok[3] = IF isHtml THEN 1 ELSE 0
       /\ tok[1] = "markup" => isHtml /\ tok[3] = 0

(***************************************************************************)
(* What the operator and the producer supply is proper itself: templates   *)
(* and files in the type they are declared with, layouts as HTML, values,  *)
(* labels and the bot's copy as plain text, snapshots in their own type.   *)
(***************************************************************************)
ASSUME InputsAssumption ==
    /\ \A e \in Events :
          /\ \A k \in DOMAIN e.variables :
                Proper(e.variables[k], k = "template_body" /\ e.template = "notification_custom_html")
          /\ Proper(e.tg_title, FALSE) /\ Proper(e.tg_body, FALSE)
    /\ \A i \in DOMAIN Items :
          /\ \A l \in DOMAIN Items[i].subject : Proper(Items[i].subject[l], FALSE)
          /\ \A f \in {<<"html", "html">>, <<"text", "plain">>, <<"body", "plain">>} :
             \A l \in DOMAIN Items[i][f[1]] : Proper(Items[i][f[1]][l], IsHtml(Items[i], f[2]))
          /\ \A f \in {<<"html_file", "html">>, <<"text_file", "plain">>} :
             \A l \in DOMAIN Items[i][f[1]] :
                Items[i][f[1]][l] \in DOMAIN File => Proper(File[Items[i][f[1]][l]], IsHtml(Items[i], f[2]))
    /\ \A a \in SMTP : Proper(a.layout, TRUE) /\ \A b \in DOMAIN a.brands : Proper(a.brands[b], TRUE)
    /\ Proper(Label, FALSE) /\ Proper(Link, FALSE)
    /\ Fields \subseteq DOMAIN Deployed
    /\ \A f \in Fields : \A l \in {"en", "ru"} : l \in DOMAIN Deployed[f] /\ Proper(Deployed[f][l], FALSE)

\* Type invariant; a template that is being filled in has all the variables it
\* requires, and says something.
TypeOK ==
    /\ event \in Events /\ smtp \in SMTP \cup {NoAdapter} /\ disk \subseteq DOMAIN File
    /\ stage \in {"new", "subject", "body", "rendered"} \cup Final
    /\ todo \subseteq DOMAIN event.variables
    /\ {html, out.html, out.unsubscribe, out.button} \subseteq BOOLEAN
    /\ stage \in {"subject", "body"} =>
          ItemOf(event).required \subseteq DOMAIN event.variables /\ BodyOf(event).text # {}

\* Values, labels and copy reach the reader as they were written, and markup of
\* the operator is obeyed, whatever template, layout, brand and channel the text
\* goes through: it is escaped once on its way into HTML and not at all on its
\* way into plain text, and no entity is cut in two.
ShownAsWritten ==
    stage \in Sent => Proper(out.text, out.html) /\ Proper(subject, FALSE)

\* Every placeholder of t that has a value, replaced at once.
Filled(t, values) ==
    (t \ {Slot(k) : k \in DOMAIN values})
        \cup UNION {values[k] : k \in {x \in DOMAIN values : Slot(x) \in t}}

Values(e, isHtml) ==
    [k \in DOMAIN e.variables |-> IF isHtml THEN Escape(e.variables[k]) ELSE e.variables[k]]

NothingNested(e) ==
    \A j, k \in DOMAIN e.variables : Slot(j) \notin e.variables[k]

\* As long as no value mentions a variable, the order in which the map of the
\* variables is walked has no influence on the subject and the body.
OrderDoesNotMatter ==
    stage \in {"rendered"} \cup Sent /\ ~event.greeting
        /\ event.template \notin Custom /\ NothingNested(event) =>
      /\ subject = Filled(Localized(ItemOf(event).subject, LocaleOf(event)), Values(event, FALSE))
      /\ body = Filled(BodyOf(event).text, Values(event, html))

\* The layout is filled in one pass: a "{{footer}}" that came in with the body
\* is shown as it is, and the layout's own two placeholders are gone.
LayoutIsFilledOnce ==
    stage = "mailed" =>
      /\ Slots(body) \subseteq out.text
      /\ {Slot("body"), Slot("footer")} \cap out.text \subseteq body \cup Link \cup Label

\* A mail that offers one-click unsubscription also shows the link, unless its
\* body is said to have one; a mail that does not offer it gains no link.
UnsubscribeIsShown ==
    stage = "mailed" =>
      LET words == {tok \in Link : tok[1] = "words"}
      IN /\ out.unsubscribe /\ ~event.in_body => words \subseteq out.text
         /\ ~out.unsubscribe => words \cap out.text \subseteq body \cup LayoutOf(smtp, event)
=============================================================================
