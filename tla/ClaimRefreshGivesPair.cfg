SPECIFICATION FairSpec
CONSTANTS
  ann = ann
  bea = bea
  cyd = cyd
  one_mail = one_mail
  two_mail = two_mail
  one_name = one_name
  two_name = two_name
  browser = browser
  Requests <- MCRequests
  Emails <- MCEmails
  Usernames <- MCUsernames
  Forms <- MCForms
  Clients = {browser}
  Pairs = 2
PROPERTIES
  RefreshGivesPair
CHECK_DEADLOCK FALSE
