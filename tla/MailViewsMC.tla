----------------------------- MODULE MailViewsMC -----------------------------
EXTENDS MailViews
=============================================================================
