----------------------------- MODULE MCReadPath -----------------------------
EXTENDS ReadPath
CONSTANT inbox
from(p) == [t |-> "f", a |-> <<"address">>, p |-> p]
alone(a) == [t |-> "f", a |-> a, p |-> <<>>]
to == [t |-> "t", a |-> <<"other">>, p |-> <<"name">>]
mail(d, f, s, e) == [su |-> "subject", d |-> d, f |-> f, s |-> s, e |-> e]
\* A named sender behind a recipient; no sender at all; a sender without a
\* name, in a large message; a sender whose name has a quote in it; a sender
\* without a name, whose address is quoted in part or looks like two things.
MailDef == {mail(1, {"u"}, 3, <<to, from(<<"name">>), from(<<>>)>>),
            mail(2, {"attachment"}, Absent, <<to>>),
            mail(3, {}, 5, <<from(<<>>)>>),
            mail(4, {}, 1, <<from(<<"some", "quote", "name">>)>>),
            mail(5, {"u"}, 0, <<alone(<<"quote", "some", "quote", "address">>)>>),
            mail(6, {}, 0, <<alone(<<"quote", "some", "close">>)>>)}
\* A folder whose name is a number, below the inbox.
PathDef == <<inbox, 2>>
=============================================================================
