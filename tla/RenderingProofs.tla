--------------------------- MODULE RenderingProofs ---------------------------
(***************************************************************************)
(* What module Rendering promises, for every template, brand, value and    *)
(* copy that satisfies InputsAssumption.                                   *)
(*                                                                         *)
(* ShownAsWritten is not inductive: that the mail is proper rests on the   *)
(* subject and the body that were rendered before, and these on the        *)
(* template that was chosen and on the values that are still to come.      *)
(* OrderDoesNotMatter rests on what a text looks like halfway through the  *)
(* range over the variables.                                               *)
(***************************************************************************)
EXTENDS Rendering, TLAPS

-----------------------------------------------------------------------------
(* Texts *)

LEMMA ProperUnion ==
    ASSUME NEW s, NEW t, NEW h, Proper(s, h), Proper(t, h)
    PROVE  Proper(s \cup t, h)
BY DEF Proper

LEMMA ProperPart ==
    ASSUME NEW t, NEW s, NEW h, Proper(t, h), s \subseteq t
    PROVE  Proper(s, h)
BY DEF Proper

LEMMA ProperEmpty == \A h : Proper({}, h)
BY DEF Proper

\* Escaping makes HTML of a plain text.
LEMMA ProperEscape ==
    ASSUME NEW t, Proper(t, FALSE)
    PROVE  Proper(Escape(t), TRUE)
<1> SUFFICES ASSUME NEW x \in t,
                    NEW tok, tok = IF x[1] \in Special THEN <<x[1], x[2], x[3] + 1>> ELSE x
             PROVE  /\ tok[1] \in {"words", "tail", "slot", "literal", "markup"}
                    /\ tok[1] = "literal" => tok[3] = 1
                    /\ tok[1] = "markup" => tok[3] = 0
    BY DEF Proper, Escape
<1>1. CASE x[1] = "literal"
    <2>1. x[3] = 0
        BY <1>1 DEF Proper
    <2>2. tok = <<"literal", x[2], 1>>
        BY <1>1, <2>1 DEF Special
    <2>3. tok[1] = "literal" /\ tok[3] = 1
        BY <2>2
    <2> QED BY <2>3
<1>2. CASE x[1] # "literal"
    <2>1. x[1] # "markup"
        BY DEF Proper
    <2> QED BY <1>2, <2>1 DEF Proper, Special
<1> QED BY <1>1, <1>2

\* Reading HTML as plain text drops the tags and decodes the entities.
LEMMA ProperPlainText ==
    ASSUME NEW t, Proper(t, TRUE)
    PROVE  Proper(PlainText(t), FALSE)
<1> DEFINE Read(x) == IF x[1] \in Special THEN <<x[1], x[2], x[3] - 1>> ELSE x
           Kept == {x \in t : x[1] \in Special => x[3] > 0}
<1>1. ASSUME NEW x \in Kept, x[1] = "literal"
      PROVE  Read(x)[1] = "literal" /\ Read(x)[3] = 0
    <2>1. x[3] = 1
        BY <1>1 DEF Proper
    <2>2. Read(x) = <<x[1], x[2], x[3] - 1>>
        BY <1>1 DEF Special
    <2> QED BY <1>1, <2>1, <2>2
<1>2. ASSUME NEW x \in Kept, x[1] # "literal"
      PROVE  Read(x) = x /\ x[1] \in {"words", "tail", "slot"}
    BY <1>2 DEF Proper, Special
<1>3. PlainText(t) = {Read(x) : x \in Kept}
    BY DEF PlainText
<1> QED BY <1>1, <1>2, <1>3 DEF Proper

\* A plain text has no entities that a cut could tear.
LEMMA ProperTruncate ==
    ASSUME NEW t, Proper(t, FALSE)
    PROVE  Proper(Truncate(t), FALSE)
<1>1. {x \in t : x[1] = "literal" /\ x[3] > 0} = {}
    BY DEF Proper
<1> QED BY <1>1 DEF Truncate, Proper

LEMMA ProperReplace ==
    ASSUME NEW t, NEW k, NEW value, NEW h, Proper(t, h), Proper(value, h)
    PROVE  Proper(Replace(t, k, value), h)
BY DEF Replace, Proper

LEMMA ProperLocalized ==
    ASSUME NEW values, NEW locale, NEW h, \A l \in DOMAIN values : Proper(values[l], h)
    PROVE  Proper(Localized(values, locale), h)
BY ProperEmpty DEF Localized

LEMMA LocalizedValue ==
    ASSUME NEW values, NEW locale, Localized(values, locale) # {}
    PROVE  \E l \in DOMAIN values : Localized(values, locale) = values[l]
BY DEF Localized

-----------------------------------------------------------------------------
(* What rendering starts from *)

LEMMA ValueIsPlain ==
    ASSUME NEW e \in Events, e.template \notin Custom, NEW k \in DOMAIN e.variables
    PROVE  Proper(e.variables[k], FALSE)
<1>1. e.template # "notification_custom_html"
    BY DEF Custom
<1>2. Proper(e.variables[k], k = "template_body" /\ e.template = "notification_custom_html")
    BY InputsAssumption DEF InputsAssumption
<1> QED BY <1>1, <1>2 DEF Proper

LEMMA SnapshotIsProper ==
    ASSUME NEW e \in Events, e.template \in Custom, SnapshotOK(e)
    PROVE  /\ Proper(e.variables["template_subject"], FALSE)
           /\ Proper(e.variables["template_body"], e.template = "notification_custom_html")
<1>1. \A k \in DOMAIN e.variables :
          Proper(e.variables[k], k = "template_body" /\ e.template = "notification_custom_html")
    BY InputsAssumption DEF InputsAssumption
<1> QED BY <1>1 DEF SnapshotOK, Proper

LEMMA TemplateIsKnown ==
    ASSUME NEW e, TemplateOK(e)
    PROVE  \E i \in DOMAIN Items : ItemOf(e) = Items[i]
BY DEF TemplateOK, ItemOf

LEMMA SubjectIsPlain ==
    ASSUME NEW e \in Events, TemplateOK(e)
    PROVE  Proper(Localized(ItemOf(e).subject, LocaleOf(e)), FALSE)
<1>1. PICK i \in DOMAIN Items : ItemOf(e) = Items[i]
    BY TemplateIsKnown
<1>2. \A l \in DOMAIN Items[i].subject : Proper(Items[i].subject[l], FALSE)
    BY InputsAssumption DEF InputsAssumption
<1> QED BY <1>1, <1>2, ProperLocalized

\* Whichever of its five bodies a template has, it is of the type it declares.
LEMMA BodyIsProper ==
    ASSUME NEW e \in Events, TemplateOK(e), disk \subseteq DOMAIN File
    PROVE  /\ BodyOf(e).html \in BOOLEAN
           /\ Proper(BodyOf(e).text, BodyOf(e).html)
<1>1. PICK i \in DOMAIN Items : ItemOf(e) = Items[i]
    BY TemplateIsKnown
<1> DEFINE item == Items[i]
           Of(field) == Localized(item[field], LocaleOf(e))
           As(text, type) == [text |-> text, html |-> IsHtml(item, type)]
<1>2. /\ Proper(Of("html"), IsHtml(item, "html"))
      /\ Proper(Of("text"), IsHtml(item, "plain"))
      /\ Proper(Of("body"), IsHtml(item, "plain"))
    <2>1. ASSUME NEW f \in {<<"html", "html">>, <<"text", "plain">>, <<"body", "plain">>}
          PROVE  Proper(Localized(item[f[1]], LocaleOf(e)), IsHtml(item, f[2]))
        <3>1. \A l \in DOMAIN item[f[1]] : Proper(item[f[1]][l], IsHtml(item, f[2]))
            BY InputsAssumption DEF InputsAssumption
        <3> QED BY <3>1, ProperLocalized
    <2>2. PICK f, g, h : f = <<"html", "html">> /\ g = <<"text", "plain">> /\ h = <<"body", "plain">>
        OBVIOUS
    <2>3. f[1] = "html" /\ f[2] = "html" /\ g[1] = "text" /\ g[2] = "plain" /\ h[1] = "body" /\ h[2] = "plain"
        BY <2>2
    <2> HIDE DEF item
    <2> QED BY <2>1, <2>2, <2>3
<1>3. /\ Of("html_file") # {} /\ ReadTemplateFile(Of("html_file")) # Unreadable
            => Proper(ReadTemplateFile(Of("html_file")), IsHtml(item, "html"))
      /\ Of("text_file") # {} /\ ReadTemplateFile(Of("text_file")) # Unreadable
            => Proper(ReadTemplateFile(Of("text_file")), IsHtml(item, "plain"))
    <2>1. ASSUME NEW f \in {<<"html_file", "html">>, <<"text_file", "plain">>},
                 NEW path, path = Localized(item[f[1]], LocaleOf(e)), path # {}, path \in disk
          PROVE  Proper(File[path], IsHtml(item, f[2]))
        <3>1. PICK l \in DOMAIN item[f[1]] : path = item[f[1]][l]
            BY <2>1, LocalizedValue
        <3>2. item[f[1]][l] \in DOMAIN File => Proper(File[item[f[1]][l]], IsHtml(item, f[2]))
            BY InputsAssumption DEF InputsAssumption
        <3> QED BY <2>1, <3>1, <3>2
    <2>2. PICK f, g : f = <<"html_file", "html">> /\ g = <<"text_file", "plain">>
        OBVIOUS
    <2>3. f[1] = "html_file" /\ f[2] = "html" /\ g[1] = "text_file" /\ g[2] = "plain"
        BY <2>2
    <2> HIDE DEF item
    <2> QED BY <2>1, <2>2, <2>3 DEF ReadTemplateFile
<1>4. BodyOf(e) = IF Of("html") # {} THEN As(Of("html"), "html")
                  ELSE IF Of("html_file") # {} THEN As(ReadTemplateFile(Of("html_file")), "html")
                  ELSE IF Of("text") # {} THEN As(Of("text"), "plain")
                  ELSE IF Of("text_file") # {} THEN As(ReadTemplateFile(Of("text_file")), "plain")
                  ELSE As(Of("body"), "plain")
    BY <1>1 DEF BodyOf, Body
<1>5. BodyOf(e).text # Unreadable
    BY DEF TemplateOK
<1>6. \A type : IsHtml(item, type) \in BOOLEAN
    BY DEF IsHtml
<1> HIDE DEF item, Of
<1> QED BY <1>2, <1>3, <1>4, <1>5, <1>6

-----------------------------------------------------------------------------
(* What leaves the service *)

LEMMA ProperTag == Proper(Tag, TRUE)
<1>1. \A name : Proper({<<"markup", name, 0>>}, TRUE)
    BY DEF Proper
<1> QED BY <1>1 DEF Tag

LEMMA ProperWords == \A name : Proper({<<"words", name, 0>>}, FALSE)
BY DEF Proper

LEMMA LinkIsProper == Proper(HtmlLink, TRUE) /\ Proper(Link \cup Label, FALSE)
<1>1. Proper(Link, FALSE) /\ Proper(Label, FALSE)
    BY InputsAssumption DEF InputsAssumption
<1>2. Proper(Escape(Link), TRUE) /\ Proper(Escape(Label), TRUE)
    BY <1>1, ProperEscape
<1> QED BY <1>1, <1>2, ProperTag, ProperUnion DEF HtmlLink

LEMMA LayoutIsHtml ==
    ASSUME NEW e, NEW a \in SMTP, MailOK(a, e)
    PROVE  Proper(LayoutOf(a, e), TRUE)
<1>1. Proper(a.layout, TRUE) /\ \A b \in DOMAIN a.brands : Proper(a.brands[b], TRUE)
    BY InputsAssumption DEF InputsAssumption
<1> QED BY <1>1, ProperEmpty DEF LayoutOf, MailOK

LEMMA MailIsProper ==
    ASSUME NEW e, NEW a \in SMTP, MailOK(a, e), html \in BOOLEAN, Proper(body, html),
           NEW isHtml, isHtml = (html \/ LayoutOf(a, e) # {})
    PROVE  Proper(MailText(a, e) \cup (IF isHtml THEN Tag ELSE {}), isHtml)
<1>1. Proper(MailText(a, e), isHtml)
    <2>1. CASE LayoutOf(a, e) = {}
        <3>1. CASE html
            <4>1. Proper(body, TRUE) /\ isHtml = TRUE
                BY <2>1, <3>1
            <4> QED BY <2>1, <3>1, <4>1, LinkIsProper, ProperUnion DEF MailText, WithLink
        <3>2. CASE ~html
            <4>1. Proper(body, FALSE) /\ isHtml = FALSE
                BY <2>1, <3>2
            <4> QED BY <2>1, <3>2, <4>1, LinkIsProper, ProperUnion DEF MailText, WithLink
        <3> QED BY <3>1, <3>2
    <2>2. CASE LayoutOf(a, e) # {}
        <3> DEFINE text == IF html THEN body ELSE Tag \cup Escape(body)
                   footer == IF ShowsLink(e) THEN HtmlLink ELSE {}
        <3>1. Proper(text, TRUE)
            <4>1. CASE html
                BY <4>1
            <4>2. CASE ~html
                <5>1. Proper(Escape(body), TRUE)
                    BY <4>2, ProperEscape
                <5> QED BY <4>2, <5>1, ProperTag, ProperUnion
            <4> QED BY <4>1, <4>2
        <3>2. Proper(footer, TRUE)
            BY LinkIsProper, ProperEmpty
        <3>3. Proper(LayoutOf(a, e) \ {Slot("body"), Slot("footer")}, TRUE)
            BY LayoutIsHtml DEF Proper
        <3>4. MailText(a, e) = (LayoutOf(a, e) \ {Slot("body"), Slot("footer")}) \cup text \cup footer
            BY <2>2 DEF MailText, ApplyLayout
        <3>5. isHtml = TRUE
            BY <2>2
        <3> HIDE DEF text, footer
        <3> QED BY <3>1, <3>2, <3>3, <3>4, <3>5, ProperUnion
    <2> QED BY <2>1, <2>2
<1>2. CASE isHtml
    <2>1. isHtml = TRUE
        BY <1>2
    <2> QED BY <1>1, <2>1, ProperTag, ProperUnion
<1>3. CASE ~isHtml
    BY <1>1, <1>3, ProperEmpty, ProperUnion
<1> QED BY <1>2, <1>3

\* The bot speaks the deployment's copy or the service's own.
LEMMA CopyIsPlain ==
    ASSUME NEW e, NEW field \in Fields
    PROVE  Proper(BotCopy(field, e), FALSE)
<1>1. BotLocale(e) \in {"en", "ru"}
    BY DEF BotLocale
<1>2. Proper(Deployed[field][BotLocale(e)], FALSE)
    BY <1>1, InputsAssumption DEF InputsAssumption
<1> QED BY <1>2, ProperWords DEF BotCopy, Copy, FirstNonBlank

LEMMA PassageIsProper ==
    ASSUME NEW t, Proper(t, FALSE)
    PROVE  Proper(Passage(t), TRUE)
BY ProperTruncate, ProperEscape DEF Passage

LEMMA HeadedIsProper ==
    ASSUME NEW title, NEW text, Proper(title, FALSE), Proper(text, FALSE)
    PROVE  Proper(Headed(title, text), TRUE)
<1>1. Proper(Tag \cup Passage(title), TRUE) /\ Proper(Passage(text), TRUE)
    BY PassageIsProper, ProperTag, ProperUnion
<1> QED BY <1>1, ProperEmpty, ProperUnion DEF Headed

LEMMA TelegramBodyIsPlain ==
    ASSUME NEW e \in Events, html \in BOOLEAN, Proper(body, html)
    PROVE  Proper(TelegramBody(e), FALSE)
<1>1. Proper(e.tg_body, FALSE)
    BY InputsAssumption DEF InputsAssumption
<1>2. CASE html
    <2>1. Proper(PlainText(body), FALSE)
        BY <1>2, ProperPlainText
    <2> QED BY <1>1, <1>2, <2>1 DEF TelegramBody, FirstNonBlank
<1>3. CASE ~html
    <2>1. Proper(body, FALSE)
        BY <1>3
    <2> QED BY <1>1, <1>3, <2>1 DEF TelegramBody, FirstNonBlank
<1> QED BY <1>2, <1>3

LEMMA BotMessageIsProper ==
    ASSUME NEW e \in Events, html \in BOOLEAN, Proper(body, html), Proper(subject, FALSE)
    PROVE  Proper(Greeting(e), TRUE) /\ Proper(Notification(e), TRUE)
<1>1. Proper(TelegramBody(e), FALSE)
    BY TelegramBodyIsPlain
<1>2. \A field \in Fields : Proper(BotCopy(field, e), FALSE)
    BY CopyIsPlain
<1>3. Proper(Greeting(e), TRUE)
    <2> DEFINE start == e.presentation = "start"
               title == FirstNonBlank(subject, BotCopy(IF start THEN "StartTitle" ELSE "WelcomeTitle", e))
               text == FirstNonBlank(TelegramBody(e), BotCopy(IF start THEN "StartBody" ELSE "WelcomeBody", e))
    <2>1. Proper(title, FALSE) /\ Proper(text, FALSE)
        BY <1>1, <1>2 DEF FirstNonBlank, Fields
    <2>2. Greeting(e) = Headed(title, text)
        BY DEF Greeting
    <2> HIDE DEF title, text
    <2> QED BY <2>1, <2>2, HeadedIsProper
<1>4. Proper(Notification(e), TRUE)
    <2> DEFINE title == FirstNonBlank(FirstNonBlank(e.tg_title, subject), BotCopy("NotificationFallbackTitle", e))
               heading == IF e.chat THEN {<<"words", "message from", 0>>} \cup title ELSE title
    <2>1. Proper(e.tg_title, FALSE)
        BY InputsAssumption DEF InputsAssumption
    <2>2. Proper(title, FALSE)
        BY <1>2, <2>1 DEF FirstNonBlank, Fields
    <2>3. Proper(heading, FALSE)
        <3> HIDE DEF title
        <3> QED BY <2>2, ProperWords, ProperUnion
    <2>4. Proper(Escape(BotCopy("NotificationFooter", e)), TRUE)
        BY <1>2, ProperEscape DEF Fields
    <2>5. Notification(e) = Headed(heading, TelegramBody(e)) \cup Escape(BotCopy("NotificationFooter", e))
        BY DEF Notification
    <2> HIDE DEF heading
    <2> QED BY <1>1, <2>3, <2>4, <2>5, HeadedIsProper, ProperUnion
<1> QED BY <1>3, <1>4

-----------------------------------------------------------------------------
(* The range over the variables *)

\* The text when the loop has been through the variables in done.
PartFilled(t, values, done) ==
    (t \ {Slot(k) : k \in done}) \cup UNION {values[k] : k \in {x \in done : Slot(x) \in t}}

LEMMA SlotsDiffer == \A j, k : Slot(j) = Slot(k) => j = k
BY DEF Slot

\* One turn of the loop.  A value that brings no placeholder with it cannot
\* change which of the others are in the text.
LEMMA TurnFills ==
    ASSUME NEW t, NEW values, NEW done, NEW k, k \notin done,
           \A j \in done : Slot(k) \notin values[j]
    PROVE  Replace(PartFilled(t, values, done), k, values[k]) = PartFilled(t, values, done \cup {k})
<1> DEFINE before == PartFilled(t, values, done)
           after == PartFilled(t, values, done \cup {k})
<1>1. Slot(k) \in before <=> Slot(k) \in t
    BY SlotsDiffer DEF PartFilled
<1>2. ASSUME NEW tok, tok # Slot(k) \/ tok \in values[k]
      PROVE  tok \in after <=> tok \in before \/ (Slot(k) \in t /\ tok \in values[k])
    BY <1>2 DEF PartFilled
<1>3. CASE Slot(k) \in t
    <2>1. Slot(k) \notin values[k] => Slot(k) \notin after
        BY DEF PartFilled
    <2>2. \A tok : tok \in after <=> tok \in (before \ {Slot(k)}) \cup values[k]
        <3> HIDE DEF before, after
        <3> QED BY <1>2, <1>3, <2>1
    <2>3. after = (before \ {Slot(k)}) \cup values[k]
        <3> HIDE DEF before, after
        <3> QED BY <2>2
    <2> HIDE DEF before, after
    <2>4. Replace(before, k, values[k]) = after
        BY <1>1, <1>3, <2>3 DEF Replace
    <2> QED BY <2>4 DEF before, after
<1>4. CASE Slot(k) \notin t
    <2>1. \A tok : tok \in after <=> tok \in before
        BY <1>4 DEF PartFilled
    <2>2. after = before
        <3> HIDE DEF before, after
        <3> QED BY <2>1
    <2> HIDE DEF before, after
    <2>3. Replace(before, k, values[k]) = after
        BY <1>1, <1>4, <2>2 DEF Replace
    <2> QED BY <2>3 DEF before, after
<1> QED BY <1>3, <1>4

\* Escaping neither makes nor unmakes a placeholder.
LEMMA EscapeKeepsSlots ==
    ASSUME NEW t, NEW k
    PROVE  Slot(k) \in Escape(t) <=> Slot(k) \in t
<1>1. \A x : x[1] \in Special => <<x[1], x[2], x[3] + 1>> # Slot(k)
    BY DEF Special, Slot
<1>2. Slot(k)[1] \notin Special
    BY DEF Special, Slot
<1> QED BY <1>1, <1>2 DEF Escape

-----------------------------------------------------------------------------
(* The invariant *)

Begun == {"subject", "body"}
HasText == Begun \cup {"rendered"} \cup Sent

ContextInv ==
    /\ TypeOK
    /\ stage \in Begun => event.template \notin Custom /\ TemplateOK(event)

TextInv == stage \in HasText => Proper(subject, FALSE) /\ Proper(body, html)

MailInv == stage \in Sent => Proper(out.text, out.html)

Done == DOMAIN event.variables \ todo
SubjectOf(e) == Localized(ItemOf(e).subject, LocaleOf(e))

FillInv ==
    NothingNested(event) =>
       /\ stage = "subject" =>
            /\ subject = PartFilled(SubjectOf(event), Values(event, FALSE), Done)
            /\ body = BodyOf(event).text
       /\ stage = "body" =>
            /\ subject = Filled(SubjectOf(event), Values(event, FALSE))
            /\ body = PartFilled(BodyOf(event).text, Values(event, html), Done)

RInv == ContextInv /\ TextInv /\ MailInv /\ FillInv /\ OrderDoesNotMatter

LEMMA FilledAll == \A t, values : PartFilled(t, values, DOMAIN values) = Filled(t, values)
BY DEF PartFilled, Filled

LEMMA FilledNone == \A t, values : PartFilled(t, values, {}) = t
BY DEF PartFilled

LEMMA ValuesDomain == \A e, h : DOMAIN Values(e, h) = DOMAIN e.variables
BY DEF Values

\* A turn of either loop, in terms of the invariant.
LEMMA TurnKeepsFilled ==
    ASSUME NEW e, NothingNested(e), NEW h \in BOOLEAN, NEW done \in SUBSET DOMAIN e.variables,
           NEW k \in DOMAIN e.variables, k \notin done, NEW t
    PROVE  Replace(PartFilled(t, Values(e, h), done), k, Values(e, h)[k])
              = PartFilled(t, Values(e, h), done \cup {k})
<1>1. \A j \in done : Slot(k) \notin Values(e, h)[j]
    BY EscapeKeepsSlots DEF NothingNested, Values
<1> QED BY <1>1, TurnFills

LEMMA RInvInit == Init => RInv
<1> SUFFICES ASSUME Init PROVE RInv
    OBVIOUS
<1>1. event \in Events /\ disk \subseteq DOMAIN File /\ stage \in {"new", "rendered"}
      /\ (stage = "rendered" => event.greeting)
    BY DEF Init
<1>2. ContextInv
    BY <1>1 DEF Init, ContextInv, TypeOK, NoOut, Final, Begun
<1>3. TextInv
    BY ProperEmpty DEF Init, TextInv
<1>4. MailInv /\ FillInv /\ OrderDoesNotMatter
    BY <1>1 DEF MailInv, FillInv, OrderDoesNotMatter, Sent
<1> QED BY <1>2, <1>3, <1>4 DEF RInv

LEMMA SnapshotStep == RInv /\ RenderSnapshot => RInv'
<1> SUFFICES ASSUME RInv, RenderSnapshot PROVE RInv'
    OBVIOUS
<1>1. event \in Events /\ event.template \in Custom /\ stage' = "rendered" /\ event' = event
    BY DEF RInv, ContextInv, TypeOK, RenderSnapshot
<1>2. ContextInv'
    BY <1>1 DEF RInv, ContextInv, TypeOK, RenderSnapshot, Begun, Final
<1>3. TextInv'
    <2>1. html' = (event.template = "notification_custom_html")
        BY DEF RenderSnapshot
    <2>2. Proper(subject', FALSE) /\ Proper(body', html')
        BY <1>1, <2>1, SnapshotIsProper DEF RenderSnapshot
    <2> QED BY <2>2 DEF TextInv, Proper
<1>4. (MailInv /\ FillInv /\ OrderDoesNotMatter)'
    BY <1>1 DEF MailInv, FillInv, OrderDoesNotMatter, Sent
<1> QED BY <1>2, <1>3, <1>4 DEF RInv

LEMMA FailStep == RInv /\ RenderFails => RInv'
BY DEF RInv, RenderFails, ContextInv, TypeOK, TextInv, MailInv, FillInv, OrderDoesNotMatter,
       Sent, Final, Begun, HasText

LEMMA BeginStep == RInv /\ RenderBegins => RInv'
<1> SUFFICES ASSUME RInv, RenderBegins PROVE RInv'
    OBVIOUS
<1>1. /\ event \in Events /\ disk \subseteq DOMAIN File
      /\ event.template \notin Custom /\ TemplateOK(event)
      /\ stage' = "subject" /\ event' = event /\ disk' = disk /\ out' = out
      /\ subject' = SubjectOf(event) /\ body' = BodyOf(event).text /\ html' = BodyOf(event).html
      /\ todo' = DOMAIN event.variables
    BY DEF RInv, ContextInv, TypeOK, RenderBegins, SubjectOf
<1>2. BodyOf(event)' = BodyOf(event) /\ TemplateOK(event)' = TemplateOK(event)
    BY <1>1 DEF BodyOf, Body, ReadTemplateFile, TemplateOK
<1>3. ContextInv'
    BY <1>1, <1>2, BodyIsProper DEF RInv, ContextInv, TypeOK, RenderBegins, TemplateOK, Begun, Final
<1>4. Proper(subject', FALSE) /\ Proper(body', html')
    BY <1>1, SubjectIsPlain, BodyIsProper DEF SubjectOf
<1>5. FillInv'
    BY <1>1, <1>2, FilledNone DEF FillInv, SubjectOf, Done
<1>6. (TextInv /\ MailInv /\ OrderDoesNotMatter)'
    BY <1>1, <1>4 DEF TextInv, MailInv, OrderDoesNotMatter, Sent, Proper
<1> QED BY <1>3, <1>5, <1>6 DEF RInv

\* What the invariant says of a loop that has not come to k yet.
LEMMA TurnContext ==
    ASSUME RInv, NEW k \in todo
    PROVE  /\ event \in Events /\ k \in DOMAIN event.variables /\ k \notin Done
           /\ todo \subseteq DOMAIN event.variables /\ html \in BOOLEAN
           /\ DOMAIN event.variables \ (todo \ {k}) = Done \cup {k}
BY DEF RInv, ContextInv, TypeOK, Done

LEMMA SubjectStep == \A k \in todo : RInv /\ ReplaceInSubject(k) => RInv'
<1> SUFFICES ASSUME NEW k \in todo, RInv, ReplaceInSubject(k) PROVE RInv'
    OBVIOUS
<1>1. /\ stage = "subject" /\ stage' = "subject" /\ event' = event /\ disk' = disk /\ out' = out
      /\ subject' = Replace(subject, k, event.variables[k])
      /\ body' = body /\ html' = html /\ todo' = todo \ {k}
    BY DEF ReplaceInSubject
<1>2. ContextInv'
    BY <1>1 DEF RInv, ContextInv, TypeOK, ReplaceInSubject, Begun, TemplateOK, BodyOf, Body, ReadTemplateFile
<1>3. Proper(subject', FALSE) /\ Proper(body', html')
    <2>1. Proper(subject, FALSE) /\ Proper(body, html) /\ event.template \notin Custom
        BY <1>1 DEF RInv, TextInv, ContextInv, HasText, Begun
    <2> QED BY <1>1, <2>1, TurnContext, ValueIsPlain, ProperReplace
<1>4. FillInv'
    <2> SUFFICES ASSUME NothingNested(event)
                 PROVE  /\ subject' = PartFilled(SubjectOf(event), Values(event, FALSE), Done')
                        /\ body' = BodyOf(event).text'
        BY <1>1 DEF FillInv, SubjectOf, NothingNested
    <2>1. Values(event, FALSE)[k] = event.variables[k]
        BY TurnContext DEF Values
    <2>2. Done' = Done \cup {k}
        BY <1>1, TurnContext DEF Done
    <2>3. subject = PartFilled(SubjectOf(event), Values(event, FALSE), Done) /\ body = BodyOf(event).text
        BY <1>1 DEF RInv, FillInv
    <2>4. Done \in SUBSET DOMAIN event.variables
        BY DEF Done
    <2>5. ASSUME NEW h \in BOOLEAN, NEW t
          PROVE  Replace(PartFilled(t, Values(event, h), Done), k, Values(event, h)[k])
                    = PartFilled(t, Values(event, h), Done \cup {k})
        BY <2>4, TurnContext, TurnKeepsFilled
    <2>6. Replace(PartFilled(SubjectOf(event), Values(event, FALSE), Done), k, Values(event, FALSE)[k])
             = PartFilled(SubjectOf(event), Values(event, FALSE), Done \cup {k})
        BY <2>5
    <2>7. subject' = PartFilled(SubjectOf(event), Values(event, FALSE), Done')
        BY <1>1, <2>1, <2>2, <2>3, <2>6
    <2> QED BY <1>1, <2>3, <2>7 DEF BodyOf, Body, ReadTemplateFile
<1>5. (TextInv /\ MailInv /\ OrderDoesNotMatter)'
    BY <1>1, <1>3 DEF TextInv, MailInv, OrderDoesNotMatter, Sent, Proper
<1> QED BY <1>2, <1>4, <1>5 DEF RInv

LEMMA SubjectDoneStep == RInv /\ SubjectDone => RInv'
<1> SUFFICES ASSUME RInv, SubjectDone PROVE RInv'
    OBVIOUS
<1>1. /\ stage = "subject" /\ stage' = "body" /\ todo = {} /\ todo' = DOMAIN event.variables
      /\ UNCHANGED <<event, disk, subject, body, html, out>>
    BY DEF SubjectDone
<1>2. ContextInv'
    BY <1>1 DEF RInv, ContextInv, TypeOK, SubjectDone, Begun, TemplateOK, BodyOf, Body, ReadTemplateFile
<1>3. FillInv'
    <2> SUFFICES ASSUME NothingNested(event)
                 PROVE  /\ subject = Filled(SubjectOf(event), Values(event, FALSE))
                        /\ body = PartFilled(BodyOf(event).text', Values(event, html), {})
        BY <1>1 DEF FillInv, SubjectOf, NothingNested, Done, Values, Escape
    <2>1. subject = PartFilled(SubjectOf(event), Values(event, FALSE), DOMAIN event.variables)
        BY <1>1 DEF RInv, FillInv, Done
    <2>2. body = BodyOf(event).text /\ BodyOf(event)' = BodyOf(event)
        BY <1>1 DEF RInv, FillInv, BodyOf, Body, ReadTemplateFile
    <2> QED BY <2>1, <2>2, FilledAll, FilledNone, ValuesDomain
<1>4. (TextInv /\ MailInv /\ OrderDoesNotMatter)'
    BY <1>1 DEF RInv, TextInv, MailInv, OrderDoesNotMatter, HasText, Begun, Sent, Proper
<1> QED BY <1>2, <1>3, <1>4 DEF RInv

LEMMA BodyStep == \A k \in todo : RInv /\ ReplaceInBody(k) => RInv'
<1> SUFFICES ASSUME NEW k \in todo, RInv, ReplaceInBody(k) PROVE RInv'
    OBVIOUS
<1> DEFINE value == IF html THEN Escape(event.variables[k]) ELSE event.variables[k]
<1>1. /\ stage = "body" /\ stage' = "body" /\ event' = event /\ disk' = disk /\ out' = out
      /\ body' = Replace(body, k, value)
      /\ subject' = subject /\ html' = html /\ todo' = todo \ {k}
    BY DEF ReplaceInBody
<1>2. ContextInv'
    BY <1>1 DEF RInv, ContextInv, TypeOK, ReplaceInBody, Begun, TemplateOK, BodyOf, Body, ReadTemplateFile
<1>3. Proper(subject', FALSE) /\ Proper(body', html')
    <2>1. Proper(subject, FALSE) /\ Proper(body, html) /\ event.template \notin Custom
        BY <1>1 DEF RInv, TextInv, ContextInv, HasText, Begun
    <2>2. Proper(event.variables[k], FALSE)
        BY <2>1, TurnContext, ValueIsPlain
    <2>3. Proper(value, html)
        <3>1. CASE html
            <4>1. value = Escape(event.variables[k]) /\ html = TRUE
                BY <3>1, TurnContext
            <4> QED BY <2>2, <4>1, ProperEscape
        <3>2. CASE ~html
            <4>1. value = event.variables[k] /\ html = FALSE
                BY <3>2, TurnContext
            <4> QED BY <2>2, <4>1
        <3> QED BY <3>1, <3>2
    <2> HIDE DEF value
    <2> QED BY <1>1, <2>1, <2>3, ProperReplace
<1>4. FillInv'
    <2> SUFFICES ASSUME NothingNested(event)
                 PROVE  /\ subject' = Filled(SubjectOf(event), Values(event, FALSE))
                        /\ body' = PartFilled(BodyOf(event).text', Values(event, html), Done')
        BY <1>1 DEF FillInv, SubjectOf, NothingNested, Values, Escape
    <2>1. Values(event, html)[k] = value
        BY TurnContext DEF Values
    <2>2. Done' = Done \cup {k}
        BY <1>1, TurnContext DEF Done
    <2>3. /\ subject = Filled(SubjectOf(event), Values(event, FALSE))
          /\ body = PartFilled(BodyOf(event).text, Values(event, html), Done)
        BY <1>1 DEF RInv, FillInv
    <2>4. Done \in SUBSET DOMAIN event.variables
        BY DEF Done
    <2>5. BodyOf(event)' = BodyOf(event)
        BY <1>1 DEF BodyOf, Body, ReadTemplateFile
    <2> HIDE DEF value
    <2>6. body' = PartFilled(BodyOf(event).text, Values(event, html), Done')
        BY <1>1, <2>1, <2>2, <2>3, <2>4, TurnContext, TurnKeepsFilled
    <2> QED BY <1>1, <2>3, <2>5, <2>6
<1>5. (TextInv /\ MailInv /\ OrderDoesNotMatter)'
    BY <1>1, <1>3 DEF TextInv, MailInv, OrderDoesNotMatter, Sent, Proper
<1> QED BY <1>2, <1>4, <1>5 DEF RInv

LEMMA BodyDoneStep == RInv /\ BodyDone => RInv'
<1> SUFFICES ASSUME RInv, BodyDone PROVE RInv'
    OBVIOUS
<1>1. /\ stage = "body" /\ stage' = "rendered" /\ todo = {}
      /\ UNCHANGED <<event, disk, todo, subject, body, html, out>>
    BY DEF BodyDone
<1>2. (ContextInv /\ TextInv /\ MailInv /\ FillInv)'
    BY <1>1 DEF RInv, ContextInv, TypeOK, TextInv, MailInv, FillInv, BodyDone, HasText, Begun, Sent, Final, Proper
<1>3. OrderDoesNotMatter'
    <2> SUFFICES ASSUME NothingNested(event)
                 PROVE  /\ subject = Filled(SubjectOf(event), Values(event, FALSE))
                        /\ body = Filled(BodyOf(event).text', Values(event, html))
        BY <1>1 DEF OrderDoesNotMatter, SubjectOf, NothingNested, Values, Escape
    <2>1. /\ subject = Filled(SubjectOf(event), Values(event, FALSE))
          /\ body = PartFilled(BodyOf(event).text, Values(event, html), DOMAIN event.variables)
        BY <1>1 DEF RInv, FillInv, Done
    <2>2. BodyOf(event)' = BodyOf(event)
        BY <1>1 DEF BodyOf, Body, ReadTemplateFile
    <2> QED BY <2>1, <2>2, FilledAll, ValuesDomain
<1> QED BY <1>2, <1>3 DEF RInv

\* A step from "rendered" on leaves the rendered text alone.
LEMMA TextStays ==
    ASSUME RInv, stage = "rendered", UNCHANGED <<event, disk, todo, subject, body, html>>,
           stage' \in Sent \cup {"smtp_invalid_message"}
    PROVE  TextInv' /\ FillInv' /\ OrderDoesNotMatter'
<1>1. TextInv' /\ FillInv'
    BY DEF RInv, TextInv, FillInv, HasText, Begun, Sent, Proper
<1>2. BodyOf(event)' = BodyOf(event)
    BY DEF BodyOf, Body, ReadTemplateFile
<1>3. OrderDoesNotMatter
    BY DEF RInv
<1>4. OrderDoesNotMatter'
    BY <1>2, <1>3 DEF OrderDoesNotMatter, Sent
<1> QED BY <1>1, <1>4

LEMMA SendMailStep == RInv /\ SendMail => RInv'
<1> SUFFICES ASSUME RInv, SendMail PROVE RInv'
    OBVIOUS
<1> DEFINE isHtml(a) == html \/ LayoutOf(a, event) # {}
           offered == event.unsubscribe = "https"
<1>1. /\ stage = "rendered" /\ UNCHANGED <<event, disk, todo, subject, body, html>>
      /\ event \in Events /\ html \in BOOLEAN /\ Proper(body, html)
    BY DEF RInv, ContextInv, TypeOK, TextInv, HasText, SendMail
<1>2. PICK a \in SMTP :
         /\ smtp' = a
         /\ IF MailOK(a, event)
            THEN /\ out' = [text |-> MailText(a, event) \cup (IF isHtml(a) THEN Tag ELSE {}), html |-> isHtml(a),
                            unsubscribe |-> offered, button |-> FALSE]
                 /\ stage' = "mailed"
            ELSE stage' = "smtp_invalid_message" /\ UNCHANGED out
    BY DEF SendMail
<1>3. isHtml(a) \in BOOLEAN /\ offered \in BOOLEAN
    OBVIOUS
<1>4. MailOK(a, event) => Proper(out'.text, out'.html)
    <2> SUFFICES ASSUME MailOK(a, event) PROVE Proper(out'.text, out'.html)
        OBVIOUS
    <2>1. Proper(MailText(a, event) \cup (IF isHtml(a) THEN Tag ELSE {}), isHtml(a))
        BY <1>1, MailIsProper
    <2> QED BY <1>2, <2>1
<1>5. ContextInv'
    <2>1. {out'.html, out'.unsubscribe, out'.button} \subseteq BOOLEAN
        <3> HIDE DEF isHtml, offered
        <3>1. CASE MailOK(a, event)
            <4>1. out'.html = isHtml(a)
                BY <1>2, <3>1
            <4>2. out'.unsubscribe = offered
                BY <1>2, <3>1
            <4>3. out'.button = FALSE
                BY <1>2, <3>1
            <4> QED BY <1>3, <4>1, <4>2, <4>3
        <3>2. CASE ~MailOK(a, event)
            BY <1>2, <3>2 DEF RInv, ContextInv, TypeOK
        <3> QED BY <3>1, <3>2
    <2>2. smtp' \in SMTP /\ stage' \in {"mailed", "smtp_invalid_message"}
        BY <1>2
    <2> QED BY <1>1, <2>1, <2>2 DEF RInv, ContextInv, TypeOK, Begun, Final
<1>6. MailInv'
    BY <1>2, <1>4 DEF MailInv, Sent, Proper
<1>7. (TextInv /\ FillInv /\ OrderDoesNotMatter)'
    BY <1>1, <1>2, TextStays DEF Sent
<1> QED BY <1>5, <1>6, <1>7 DEF RInv

LEMMA SendBotStep == RInv /\ SendBotMessage => RInv'
<1> SUFFICES ASSUME RInv, SendBotMessage PROVE RInv'
    OBVIOUS
<1>1. /\ stage = "rendered" /\ stage' = "posted" /\ UNCHANGED <<event, smtp, disk, todo, subject, body, html>>
      /\ event \in Events /\ html \in BOOLEAN /\ Proper(body, html) /\ Proper(subject, FALSE)
    BY DEF RInv, ContextInv, TypeOK, TextInv, HasText, SendBotMessage
<1>2. out'.text \in {Greeting(event), Notification(event)} /\ out'.html = TRUE
      /\ {out'.unsubscribe, out'.button} \subseteq BOOLEAN
    BY DEF SendBotMessage
<1>3. Proper(out'.text, out'.html)
    BY <1>1, <1>2, BotMessageIsProper
<1>4. ContextInv'
    BY <1>1, <1>2 DEF RInv, ContextInv, TypeOK, Begun, Final
<1>5. MailInv'
    BY <1>3 DEF MailInv, Proper
<1>6. (TextInv /\ FillInv /\ OrderDoesNotMatter)'
    BY <1>1, TextStays DEF Sent
<1> QED BY <1>4, <1>5, <1>6 DEF RInv

LEMMA StutterStep == RInv /\ UNCHANGED vars => RInv'
<1> SUFFICES ASSUME RInv, UNCHANGED vars PROVE RInv'
    OBVIOUS
<1>1. BodyOf(event)' = BodyOf(event)
    BY DEF vars, BodyOf, Body, ReadTemplateFile
<1>2. (ContextInv /\ TextInv /\ MailInv)'
    BY <1>1 DEF RInv, ContextInv, TypeOK, TextInv, MailInv, TemplateOK, vars, Proper
<1>3. FillInv'
    BY <1>1 DEF RInv, FillInv, Done, vars
<1>4. OrderDoesNotMatter'
    BY <1>1 DEF RInv, OrderDoesNotMatter, vars
<1> QED BY <1>2, <1>3, <1>4 DEF RInv

LEMMA RInvStep == RInv /\ [Next]_vars => RInv'
BY SnapshotStep, FailStep, BeginStep, SubjectStep, SubjectDoneStep, BodyStep, BodyDoneStep,
   SendMailStep, SendBotStep, StutterStep DEF Next

\* The invariant of the start-up and of the mails and messages made after it.
THEOREM RInvHolds == Spec => []RInv
BY RInvInit, RInvStep, PTL DEF Spec

(***************************************************************************)
(* Every rendering is well formed, with the variables its template         *)
(* requires and a text to fill.                                            *)
(***************************************************************************)
THEOREM RenderingTypes == Spec => []TypeOK
BY RInvHolds, PTL DEF RInv, ContextInv

(***************************************************************************)
(* Whatever the templates, brands, values and copy are, as long as each is *)
(* proper in its own type: a mail or a bot message shows every character   *)
(* as it was written and obeys the operator's markup only.                 *)
(***************************************************************************)
THEOREM TextIsShownAsWritten == Spec => []ShownAsWritten
<1>1. RInv => ShownAsWritten
    BY DEF RInv, MailInv, TextInv, HasText, ShownAsWritten
<1> QED BY <1>1, RInvHolds, PTL

(***************************************************************************)
(* The walk over a Go map, in whatever order, fills the text in the same   *)
(* way, as long as no value mentions a variable.                           *)
(***************************************************************************)
THEOREM MapOrderDoesNotMatter == Spec => []OrderDoesNotMatter
BY RInvHolds, PTL DEF RInv

-----------------------------------------------------------------------------
(* The mail *)

\* What left the service is what message made of the rendered text.
MadeInv ==
    stage = "mailed" =>
       /\ out.text = MailText(smtp, event)
                       \cup (IF html \/ LayoutOf(smtp, event) # {} THEN Tag ELSE {})
       /\ out.unsubscribe <=> event.unsubscribe = "https"

LEMMA MadeStep == MadeInv /\ [Next]_vars => MadeInv'
<1> SUFFICES ASSUME MadeInv, [Next]_vars PROVE MadeInv'
    OBVIOUS
<1>1. CASE SendMail
    <2> SUFFICES ASSUME stage' = "mailed"
                 PROVE  /\ out'.text = MailText(smtp', event)
                                         \cup (IF html \/ LayoutOf(smtp', event) # {} THEN Tag ELSE {})
                        /\ out'.unsubscribe <=> event.unsubscribe = "https"
        BY <1>1 DEF SendMail, MadeInv, MailText, WithLink
    <2>1. PICK a \in SMTP :
             /\ smtp' = a
             /\ out' = [text |-> MailText(a, event) \cup (IF html \/ LayoutOf(a, event) # {} THEN Tag ELSE {}),
                        html |-> (html \/ LayoutOf(a, event) # {}),
                        unsubscribe |-> event.unsubscribe = "https", button |-> FALSE]
        BY <1>1 DEF SendMail
    <2>2. out'.unsubscribe = (event.unsubscribe = "https")
        BY <2>1
    <2> QED BY <2>1, <2>2
<1>2. CASE UNCHANGED vars
    BY <1>2 DEF MadeInv, MailText, WithLink, vars
<1>3. CASE Next /\ ~SendMail
    BY <1>3 DEF Next, MadeInv, RenderSnapshot, RenderFails, RenderBegins, ReplaceInSubject, SubjectDone,
                ReplaceInBody, BodyDone, SendBotMessage
<1> QED BY <1>1, <1>2, <1>3

\* What a mail or a message shows is made of what its renderer was given.
THEOREM MadeHolds == Spec => []MadeInv
<1>1. Init => MadeInv
    BY DEF Init, MadeInv
<1> QED BY <1>1, MadeStep, PTL DEF Spec

LEMMA WordsAreNotSlots == \A name, k, x, n : <<"words", name, x>> # Slot(k) /\ <<"markup", name, n>> # Slot(k)
BY DEF Slot

LEMMA TagHasNoSlots == \A k : Slot(k) \notin Tag
BY WordsAreNotSlots DEF Tag

\* The link's HTML has the placeholders of the link and of its label, if any.
LEMMA LinkSlots ==
    ASSUME NEW k, Slot(k) \in HtmlLink
    PROVE  Slot(k) \in Link \cup Label
BY EscapeKeepsSlots, TagHasNoSlots DEF HtmlLink

(***************************************************************************)
(* Whatever the body holds, it is not taken for the layout: the layout's   *)
(* placeholders go, those of the body stay.                                *)
(***************************************************************************)
THEOREM BodyIsNotLayout == Spec => []LayoutIsFilledOnce
<1>1. ASSUME MadeInv PROVE LayoutIsFilledOnce
    <2> SUFFICES ASSUME stage = "mailed"
                 PROVE  /\ Slots(body) \subseteq out.text
                        /\ {Slot("body"), Slot("footer")} \cap out.text \subseteq body \cup Link \cup Label
        BY DEF LayoutIsFilledOnce
    <2> DEFINE layout == LayoutOf(smtp, event)
               text == MailText(smtp, event)
    <2>1. /\ text \subseteq out.text /\ out.text \subseteq text \cup Tag
        BY <1>1 DEF MadeInv
    <2>2. Slots(body) \subseteq text
        <3>1. Slots(body) \subseteq Escape(body)
            BY DEF Slots, Escape, Special
        <3>2. Slots(body) \subseteq body
            BY DEF Slots
        <3> QED BY <3>1, <3>2 DEF MailText, WithLink, ApplyLayout
    <2>3. ASSUME NEW k \in {"body", "footer"}, Slot(k) \in text
          PROVE  Slot(k) \in body \cup Link \cup Label
        <3>1. CASE layout = {}
            BY <2>3, <3>1, LinkSlots DEF MailText, WithLink
        <3>2. CASE layout # {}
            <4>1. Slot(k) \in (IF html THEN body ELSE Tag \cup Escape(body))
                     \/ Slot(k) \in (IF ShowsLink(event) THEN HtmlLink ELSE {})
                BY <2>3, <3>2 DEF MailText, ApplyLayout
            <4> QED BY <4>1, LinkSlots, EscapeKeepsSlots, TagHasNoSlots
        <3> QED BY <3>1, <3>2
    <2>4. \A k \in {"body", "footer"} : Slot(k) \in out.text => Slot(k) \in body \cup Link \cup Label
        BY <2>1, <2>3, TagHasNoSlots
    <2> QED BY <2>1, <2>2, <2>4
<1> QED BY <1>1, MadeHolds, PTL

\* Escaping leaves words as they are, and no tag or literal becomes one.
LEMMA EscapeKeepsWords ==
    ASSUME NEW t, NEW w, w[1] = "words"
    PROVE  w \in Escape(t) <=> w \in t
<1>1. \A x : x[1] \in Special => <<x[1], x[2], x[3] + 1>>[1] \in Special
    OBVIOUS
<1>2. w[1] \notin Special
    BY DEF Special
<1> QED BY <1>1, <1>2 DEF Escape

(***************************************************************************)
(* One-click unsubscription and the link in the text go together, in every *)
(* layout and content type.                                                *)
(***************************************************************************)
THEOREM UnsubscribeLinkIsShown == Spec => []UnsubscribeIsShown
<1>1. ASSUME MadeInv PROVE UnsubscribeIsShown
    <2> SUFFICES ASSUME stage = "mailed", NEW w \in Link, w[1] = "words"
                 PROVE  /\ out.unsubscribe /\ ~event.in_body => w \in out.text
                        /\ ~out.unsubscribe /\ w \in out.text => w \in body \cup LayoutOf(smtp, event)
        BY DEF UnsubscribeIsShown
    <2> DEFINE layout == LayoutOf(smtp, event)
               text == MailText(smtp, event)
    <2>1. /\ text \subseteq out.text /\ out.text \subseteq text \cup Tag
          /\ out.unsubscribe <=> event.unsubscribe = "https"
        BY <1>1 DEF MadeInv
    <2>2. w \notin Tag
        <3>1. \A x, n : <<"markup", x, n>>[1] = "markup"
            OBVIOUS
        <3> QED BY <3>1 DEF Tag
    <2>3. w \in HtmlLink
        BY EscapeKeepsWords DEF HtmlLink
    <2>4. ASSUME ShowsLink(event) PROVE w \in text
        BY <2>3, <2>4 DEF MailText, WithLink, ApplyLayout
    <2>5. ASSUME ~ShowsLink(event), w \in text PROVE w \in body \cup layout
        BY <2>2, <2>5, EscapeKeepsWords DEF MailText, WithLink, ApplyLayout
    <2> QED BY <2>1, <2>2, <2>4, <2>5 DEF ShowsLink
<1> QED BY <1>1, MadeHolds, PTL
=============================================================================
