---------------------------- MODULE MCAiService ----------------------------
EXTENDS AiService

Given(p, i, m) == [id |-> <<0, p, i>>, purpose |-> p, position |-> i, model |-> m,
                   enabled |-> TRUE, key |-> "k0", by |-> 0]
MCStored == {Given("main", 1, "m1"), Given("scrape", 1, "m2")}

In(id, m, key, from) == [id |-> id, model |-> m, key |-> key, from |-> from, enabled |-> TRUE]
Keep == In(<<0, "main", 1>>, "m1", "", <<>>)
NewKey == In(<<0, "main", 1>>, "m1", "k1", <<>>)
Copy == In(<<>>, "m2", "", <<0, "main", 1>>)
Moved == In(<<0, "main", 1>>, "m1", "", <<0, "scrape", 1>>)
Off == [Copy EXCEPT !.enabled = FALSE]
MCForms == {[main |-> <<NewKey, Off>>, scrape |-> <<Moved>>],
            [main |-> <<Keep>>, scrape |-> <<>>, triage |-> <<Copy>>]}
=============================================================================
