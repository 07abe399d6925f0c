----------------------------- MODULE MCOutreach -----------------------------
(* Outreach on small instances: two workers and one contact, for email or    *)
(* for LinkedIn, whose text may change once; one worker and two contacts.    *)
EXTENDS Outreach

CONSTANTS email, manual

MCMaxAttempts == [t \in Tasks |-> IF t = Connect THEN 2 ELSE 1]
MCContact == {<<>>, <<email>>, <<manual>>}
MCContacts == {<<email, manual>>}
MCChannel == [d \in Drafts |-> IF d = email THEN "EMAIL" ELSE "LINKEDIN_MANUAL"]
=============================================================================
