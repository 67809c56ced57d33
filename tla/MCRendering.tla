----------------------------- MODULE MCRendering -----------------------------
(* Two variables, four templates with every kind of body, values with       *)
(* special characters and with placeholders in them, two brands.            *)
EXTENDS Rendering, TLC

W(name) == <<"words", name, 0>>
Less == <<"literal", "<", 0>>
Amp == <<"literal", "<", 1>>
B == <<"markup", "", 0>>
None == [l \in {} |-> {}]
Both(en, ru) == "en" :> en @@ "ru" :> ru

Blank ==
    [subject |-> None, html |-> None, html_file |-> None, text |-> None, text_file |-> None,
     body |-> None, type |-> "", required |-> {}]

MCItems ==
    "code" :> [Blank EXCEPT !.subject = Both({W("subject"), Slot("name")}, {}),
                            !.body = Both({W("code is"), Slot("code"), Less}, {W("kod"), Slot("code")}),
                            !.required = {"code"}]
    @@ "notification" :> [Blank EXCEPT !.subject = Both({Slot("name")}, {Slot("name"), W("ru")}),
                            !.html = ("en" :> {B, Amp, Slot("name"), Slot("code"), W("news")}),
                            !.text = Both({W("plain")}, {W("plain ru")})]
    @@ "filed" :> [Blank EXCEPT !.html_file = ("ru" :> {W("mail.html")}),
                            !.text_file = ("en" :> {W("mail.txt")})]
    @@ "typed" :> [Blank EXCEPT !.text = ("ru" :> {B, Slot("code"), W("tail")}), !.type = "html"]

MCFile == {W("mail.html")} :> {B, Slot("code"), <<"tail", "mail", 0>>}
          @@ {W("mail.txt")} :> {Less, Slot("code"), Slot("footer")}

MCLayout == {B, Slot("body"), Slot("footer"), W("logo")}
MCBrands == "shop" :> MCLayout @@ "bank" :> {B, Amp, Slot("body"), Slot("footer")}
MCSMTP ==
    {[layout |-> {}, brands |-> None, default_brand |-> "", sender_ok |-> ok] : ok \in BOOLEAN}
    \cup {[layout |-> MCLayout, brands |-> None, default_brand |-> "", sender_ok |-> TRUE],
          [layout |-> {}, brands |-> MCBrands, default_brand |-> "shop", sender_ok |-> FALSE]}

MCDeployed ==
    [f \in Fields |-> [l \in {"en", "ru"} |->
        IF f = "WelcomeBody" /\ l = "en" THEN {Less, W("you are connected")} ELSE {}]]

MCLabel == {W("unsubscribe"), Less}
MCLink == {W("https address"), Less}

Variables ==
    {None,
     "code" :> {W("123"), Less},
     "code" :> {W("123")} @@ "name" :> {W("Ann"), Less, <<"tail", "name", 0>>},
     "code" :> {Slot("name")} @@ "name" :> {Slot("code"), Less},
     "code" :> {Slot("footer"), Less, W("123")} @@ "name" :> {W("Ann")},
     "template_subject" :> {W("hello"), Slot("code")}
        @@ "template_body" :> {W("dear"), Slot("code"), Slot("body")}}

Snapshot == "template_subject" :> {W("hello")} @@ "template_body" :> {B, Amp, W("dear"), Slot("code")}

Base ==
    [template |-> "code", locale |-> "en", variables |-> None, fit |-> TRUE, greeting |-> FALSE,
     brand |-> "", apply_layout |-> FALSE, unsubscribe |-> "", in_body |-> FALSE, label |-> TRUE,
     presentation |-> "", tg_title |-> {}, tg_body |-> {}, chat |-> FALSE, target |-> FALSE]

Requests ==
    {[Base EXCEPT !.template = t, !.locale = l, !.variables = v] :
        t \in DOMAIN MCItems \cup {"notification_chat", "unknown", "notification_custom_text"},
        l \in {"", "ru", "ru-RU"}, v \in Variables}
    \cup {[Base EXCEPT !.template = "notification_custom_html", !.variables = Snapshot,
                       !.apply_layout = a, !.fit = f] : a, f \in BOOLEAN}

Plain(t) == [Base EXCEPT !.template = t, !.variables = "code" :> {Slot("footer"), Less, W("123")}]

Metadata(e) ==
    {[e EXCEPT !.brand = "bank"], [e EXCEPT !.brand = "none"],
     [e EXCEPT !.unsubscribe = "https"], [e EXCEPT !.unsubscribe = "https", !.in_body = TRUE],
     [e EXCEPT !.unsubscribe = "https", !.label = FALSE], [e EXCEPT !.unsubscribe = "http"],
     [e EXCEPT !.chat = TRUE, !.tg_title = {W("Bob"), Less}, !.target = TRUE],
     [e EXCEPT !.tg_body = {Less, <<"tail", "long", 0>>}, !.presentation = "welcome"]}

MCEvents ==
    Requests
    \cup UNION {Metadata(e) : e \in {Plain("code"), Plain("filed"), Plain("notification_chat"),
                   [Base EXCEPT !.template = "notification_custom_html", !.variables = Snapshot]}}
    \cup {[Base EXCEPT !.template = "", !.greeting = TRUE, !.presentation = p, !.locale = l] :
             p \in {"start", "welcome"}, l \in {"", "ru-RU"}}
=============================================================================
