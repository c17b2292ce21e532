----------------------------- MODULE MCAccounts -----------------------------
(* Instances of Accounts.                                                  *)
EXTENDS Accounts

CONSTANTS ann, bea, cyd, one_mail, two_mail, one_name, two_name, browser

MCRequests == {ann, bea, cyd}
MCEmails == {one_mail, two_mail}
MCUsernames == {one_name, two_name}

Forming(a, b, c) == [r \in MCRequests |-> CASE r = ann -> a [] r = bea -> b [] r = cyd -> c]
With(mail, user) == [email |-> mail, username |-> user]

\* One form three times, and one that shares its email with one other and its
\* username with another, which have nothing in common.
MCForms ==
  {Forming(With(one_mail, one_name), With(one_mail, one_name), With(one_mail, one_name)),
   Forming(With(one_mail, one_name), With(two_mail, two_name), With(one_mail, two_name))}
=============================================================================
