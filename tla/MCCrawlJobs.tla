----------------------------- MODULE MCCrawlJobs -----------------------------
EXTENDS CrawlJobs
==============================================================================
