---------------------------- MODULE MCRenderCall ----------------------------
EXTENDS RenderCall

By(does, code, err) == [does |-> does, code |-> code, err |-> err]
MCRegistered == {By("nothing", 0, TRUE), By("header", 418, FALSE)}
MCMiddleware == {By("body", 0, FALSE), By("commit", 418, TRUE), By("adds", 0, FALSE)}
MCDefaultMiddleware == <<By("nothing", 0, FALSE)>>
MCDefaultHandlers == <<<<"Failure", "postfix", By("default", 0, FALSE)>>>>
=============================================================================
