---- MODULE MCSubscriptionFetch ----
EXTENDS SubscriptionFetch
CONSTANTS a, b
MCOrder == <<a, b>>
====
