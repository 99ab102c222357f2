------------------------------- MODULE Replies ------------------------------
(***************************************************************************)
(* Replies: the content that replyText, replyNotice, replyHtmlText and     *)
(* replyHtmlNotice make with RichReply.createFor, and the fallback that    *)
(* RichRepliesPreprocessor takes off it when a client receives the event.  *)
(* Text is a sequence of lines, a line a sequence of tokens. HTML is a      *)
(* sequence of pieces: a tag alone, or a line of text after its line break. *)
(* fetchRealEventContents, one more request, is off.                        *)
(***************************************************************************)
EXTENDS Naturals, Sequences

CONSTANTS
    Senders,     \* written in a text as <@user:server>
    Texts,       \* sequences of lines without fallback, none of them empty
    Arrows,      \* the words with a > in them
    None,
    MaxEvents    \* bound

VARIABLES
    room  \* homeserver: the events, in order, with what their senders meant

QuoteMark == "> "
Separator == <<>>   \* the empty line

-----------------------------------------------------------------------------
(* Text to HTML and back *)

Lines(text, break) == [i \in DOMAIN text |-> IF i = 1 THEN text[i] ELSE <<break>> \o text[i]]

\* HTML that a caller wrote: htmlToText keeps its words and line breaks.
HtmlOf(text) == Lines(text, "<br>")

\* htmlEncode and sanitizeHtml keep the line breaks of a text as they are.
Encoded(text) == Lines(text, "\n")

\* An event without HTML: the code treats an empty one the same.
NoHtml == <<>>

-----------------------------------------------------------------------------
(* RichReply.createFor *)

FallbackText(parent) ==
    LET signed == [parent.body EXCEPT ![1] = <<parent.sender>> \o @]
    IN [i \in DOMAIN signed |-> <<QuoteMark>> \o signed[i]]

\* The tags of a fallback, with the links in front of what is quoted.
Break   == <<"<br />">>
Unquote == <<"</blockquote>">>
End     == <<"</mx-reply>">>
Opening == << <<"<mx-reply>">>, <<"<blockquote>">>, Break >>
Closing == <<Unquote, End>>

Original(parent) == IF parent.html = NoHtml THEN Encoded(parent.body) ELSE parent.html

FallbackHtml(parent) == Opening \o Original(parent) \o Closing

\* Faulty variant: the text follows the fallback on the next line.
BodyAtOnce(parent, text) == FallbackText(parent) \o text

ReplyBody(parent, text) == FallbackText(parent) \o <<Separator>> \o text

CreateFor(parent, text, html) ==
    [replyTo |-> parent.id, body |-> ReplyBody(parent, text), html |-> FallbackHtml(parent) \o html]

-----------------------------------------------------------------------------
(* RichRepliesPreprocessor.processEvent *)

IsQuote(line) == line # <<>> /\ Head(line) = QuoteMark

\* The number of lines before the first that is not a quote.
QuotedLines(body) ==
    LET others == {i \in DOMAIN body : ~IsQuote(body[i])}
    IN IF others = {} THEN Len(body) ELSE (CHOOSE i \in others : \A j \in others : i <= j) - 1

QuotedText(body) == [i \in 1..QuotedLines(body) |-> Tail(body[i])]

\* The first other line is dropped, with nothing else the text is empty. If there
\* is no other line the body stays as it is.
RealText(body) ==
    IF QuotedLines(body) = Len(body) THEN body
    ELSE IF QuotedLines(body) + 1 = Len(body) THEN <<Separator>>
    ELSE SubSeq(body, QuotedLines(body) + 2, Len(body))

Has(tag, html)   == \E i \in DOMAIN html : html[i] = tag
First(tag, html) == CHOOSE i \in DOMAIN html : html[i] = tag /\ \A j \in 1..(i - 1) : html[j] # tag

\* HTML that is a reply is split at the ends of fallbacks: the second part is
\* what follows the first end, up to the next.
RealHtml(html) ==
    LET rest == SubSeq(html, First(End, html) + 1, Len(html))
    IN IF Has(End, rest) THEN SubSeq(rest, 1, First(End, rest) - 1) ELSE rest

LooksLikeReply(html) == html # NoHtml /\ html[1] = <<"<mx-reply>">> /\ Has(End, html)

\* What follows the first line break, if the part ends in a quotation. The dot of
\* the expression matches no line break of the text.
OneLine(html)      == \A i \in DOMAIN html : html[i] = <<>> \/ Head(html[i]) # "\n"
FallbackOf(html)   == SubSeq(html, 1, First(End, html) - 1)
HasQuotation(part) == Has(Break, part) /\ part[Len(part)] = Unquote /\ OneLine(part)
QuotationOf(part)  == SubSeq(part, First(Break, part) + 1, Len(part) - 1)

\* The tokens with a > in them
Angles == Senders \cup Arrows \cup {QuoteMark}

\* What is between the first <@ and the last > of the first quoted line: from the
\* first user it names to the last > of all, the text quoted included.
NoSender == <<>>
FallbackSender(body) ==
    LET named  == {i \in DOMAIN body[1] : body[1][i] \in Senders}
        angles == {i \in DOMAIN body[1] : body[1][i] \in Angles}
    IN IF QuotedLines(body) = 0 \/ named = {} THEN NoSender
       ELSE SubSeq(body[1], CHOOSE i \in named : \A j \in named : i <= j,
                            CHOOSE i \in angles : \A j \in angles : j <= i)

ProcessEvent(event) ==
    IF event.replyTo = None THEN [event |-> event, reply |-> None]
    ELSE LET isReply == LooksLikeReply(event.html)
             quotes  == isReply /\ HasQuotation(FallbackOf(event.html))
             sender  == FallbackSender(event.body)
         IN [event |-> [event EXCEPT !.body = RealText(@), !.html = IF isReply THEN RealHtml(@) ELSE @],
             reply |-> [parentEventId |-> event.replyTo, fallbackPlainBody |-> QuotedText(event.body),
                        fallbackHtmlBody |-> IF quotes THEN QuotationOf(FallbackOf(event.html)) ELSE NoHtml,
                        fallbackSender |-> sender,
                        wasLenient |-> ~quotes \/ sender = NoSender]]

-----------------------------------------------------------------------------
(* The room *)

\* An event as clients without and with the preprocessor see it.
Views(n) == {room[n], ProcessEvent(room[n]).event}

Init == room = <<>>

Event(sender, content, text, html, parent) ==
    [id |-> Len(room) + 1, sender |-> sender, replyTo |-> content.replyTo,
     body |-> content.body, html |-> content.html, said |-> text, shown |-> html, seen |-> parent]

\* sendText, sendNotice and, with HTML, sendHtmlText and sendHtmlNotice.
SendText(sender, text, html) ==
    /\ Len(room) < MaxEvents
    /\ room' = Append(room, Event(sender, [replyTo |-> None, body |-> text, html |-> html],
                                  text, html, None))

\* replyText and replyNotice encode the text if they are given no HTML,
\* replyHtmlText and replyHtmlNotice make the text of the HTML.
ReplyText(sender, parent, text, html) ==
    /\ Len(room) < MaxEvents
    /\ room' = Append(room, Event(sender, CreateFor(parent, text, html), text, html, parent))

\* Another client replies without a fallback.
ReplyPlainly(sender, n, text) ==
    /\ Len(room) < MaxEvents
    /\ room' = Append(room, Event(sender, [replyTo |-> n, body |-> text, html |-> NoHtml],
                                  text, NoHtml, None))

Next ==
    \E sender \in Senders, text \in Texts :
        \/ \E html \in {NoHtml, HtmlOf(text)} : SendText(sender, text, html)
        \/ \E n \in DOMAIN room :
               \/ \E parent \in Views(n), html \in {Encoded(text), HtmlOf(text)} :
                      ReplyText(sender, parent, text, html)
               \/ ReplyPlainly(sender, n, text)

Spec == Init /\ [][Next]_room

-----------------------------------------------------------------------------
(* Properties *)

HasFallback(event) == Has(End, event.html)

HasAngle(line) == \E i \in DOMAIN line : line[i] \in Angles

\* A reply made by the library is read back: its text and parent are those of its
\* sender, however many replies it follows, also if the text quotes by itself. If
\* the sender had taken the fallback off what it replies to, its HTML and what it
\* quotes are, too, though the HTML quoted is found only if it is one line, and the
\* sender quoted is followed by text unless the first line quoted is free of >.
RepliesAreRead ==
    \A n \in DOMAIN room :
        LET e == room[n]
            p == ProcessEvent(e)
        IN e.seen # None =>
               /\ p.event.body = e.said
               /\ p.reply.parentEventId = e.seen.id
               /\ ~HasFallback(e.seen) =>
                      /\ p.event.html = e.shown
                      /\ p.reply.fallbackPlainBody = [e.seen.body EXCEPT ![1] = <<e.seen.sender>> \o @]
                      /\ Head(p.reply.fallbackSender) = e.seen.sender
                      /\ ~HasAngle(e.seen.body[1]) => p.reply.fallbackSender = <<e.seen.sender>>
                      /\ p.reply.fallbackHtmlBody =
                             (IF OneLine(Original(e.seen)) THEN Original(e.seen) ELSE NoHtml)
                      /\ p.reply.wasLenient <=> ~OneLine(Original(e.seen))
=============================================================================
