---------------------- MODULE MCPublisherListGenerator ----------------------
EXTENDS PublisherListGenerator

CONSTANTS a, b

\* As many as two calls with three IDs each can use.
MCUuid == 1..6

\* With a queue of one pair, a second ID may find the queue full and a third one
\* find room again: what is then left behind meets the next call.  One list names
\* an ID twice, one has an empty ID and one with a blank inside.
MCLists ==
  {<<>>, << <<a>>, <<b>>, <<a>> >>, << <<>>, <<a, Blank, b>> >>}
=============================================================================
