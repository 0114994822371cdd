----------------------------- MODULE MCComponents -----------------------------
(***************************************************************************)
(* Five components that share no state, explored one after the other: one  *)
(* moves while the others are as they began.                               *)
(***************************************************************************)
EXTENDS DocumentQueue, DatasetFolders, MCStructuredImport, Conversation, QueryCache

componentVars == <<queueVars, folderVars, importVars, conversationVars, cacheVars>>

ComponentsInit ==
    QueueInit /\ FolderInit /\ ImportInit /\ ConversationInit /\ CacheInit

QueuePart ==
    /\ FolderInit /\ ImportInit /\ ConversationInit /\ CacheInit
    /\ QueueNext
    /\ UNCHANGED <<folderVars, importVars, conversationVars, cacheVars>>

FolderPart ==
    /\ QueueInit /\ ImportInit /\ ConversationInit /\ CacheInit
    /\ FolderNext
    /\ UNCHANGED <<queueVars, importVars, conversationVars, cacheVars>>

ImportPart ==
    /\ QueueInit /\ FolderInit /\ ConversationInit /\ CacheInit
    /\ ImportNext
    /\ UNCHANGED <<queueVars, folderVars, conversationVars, cacheVars>>

ConversationPart ==
    /\ QueueInit /\ FolderInit /\ ImportInit /\ CacheInit
    /\ ConversationNext
    /\ UNCHANGED <<queueVars, folderVars, importVars, cacheVars>>

CachePart ==
    /\ QueueInit /\ FolderInit /\ ImportInit /\ ConversationInit
    /\ CacheNext
    /\ UNCHANGED <<queueVars, folderVars, importVars, conversationVars>>

ComponentsNext ==
    QueuePart \/ FolderPart \/ ImportPart \/ ConversationPart \/ CachePart

ComponentsSpec ==
    /\ ComponentsInit /\ [][ComponentsNext]_componentVars
    /\ \A c \in Callers : WF_componentVars(ConversationPart /\ Work(c))
=============================================================================
