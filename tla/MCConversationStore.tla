------------------------ MODULE MCConversationStore -------------------------
EXTENDS ConversationStore, TLC
=============================================================================
